---- MODULE Spec2Model ----
(***************************************************************************)
(* PC Savegame Manager: the indexed backup archive (make_backup) and the   *)
(* two-phase restore (App.restore_backup) of PC_Savegame_Manager.py.       *)
(*                                                                         *)
(* A path is a sequence of segments; the filesystem maps every path of a   *)
(* small tree to "none", "dir" or the bytes of a file.  A zip archive is   *)
(* the sequence of its entries in the order they were written.             *)
(***************************************************************************)
EXTENDS Integers, Sequences, FiniteSets, TLC

\* ---------------------------------------------------------------- bounds
MaxPaths == 2   \* longest path list handed to make_backup
MaxFail  == 1   \* files that cannot be read (backup) / written (restore)
MaxEnv   == 1   \* changes made to the filesystem by something else
MaxRuns  == 1   \* discoveries started with Find Save Paths
MaxBrowse == 1  \* backup directories chosen with Browse
MaxText  == 2   \* pieces of wiki text handed to the extractor
MaxHints == 2   \* hints handed to enumerate_existing_paths
MaxClock == 3   \* ticks of the clock
MaxBackups == 2 \* calls of make_backup into one backup root
MaxKeys  == 3   \* keys released in the game entry
MaxTabs  == 1   \* changes of the tab
MaxClicks == 2  \* clicks on Backup Files

\* ------------------------------------------------------------ filesystem
\* Every path of the modelled tree, in directory-listing order.
UniverseSeq ==
  << <<"S">>, <<"S", "d">>, <<"S", "d", "g">>, <<"S", "f">>, <<"T">> >>

Universe == {UniverseSeq[i] : i \in 1..Len(UniverseSeq)}

\* Bytes a file holds when the program starts; "bx" is written later by
\* something other than the program.
Content0(p) ==
  CASE p = <<"S">>           -> "bS"
    [] p = <<"S", "d">>      -> "bd"
    [] p = <<"S", "d", "g">> -> "bg"
    [] p = <<"S", "f">>      -> "bf"
    [] OTHER                 -> "bT"

Parent(p) == SubSeq(p, 1, Len(p) - 1)

IsPrefix(a, b) == Len(a) <= Len(b) /\ SubSeq(b, 1, Len(a)) = a

\* os.path.normpath on a segment sequence: "." and empty segments vanish,
\* ".." removes the segment before it.
RECURSIVE normpath_from(_, _)
normpath_from(p, acc) ==
  IF p = <<>> THEN acc
  ELSE IF Head(p) \in {".", ""} THEN normpath_from(Tail(p), acc)
  ELSE IF Head(p) = ".." THEN
         normpath_from(Tail(p),
                       IF acc = <<>> THEN acc ELSE SubSeq(acc, 1, Len(acc) - 1))
  ELSE normpath_from(Tail(p), Append(acc, Head(p)))

normpath(p) == normpath_from(p, <<>>)

\* the file or directory a path names: the system resolves "..", "." and
\* doubled separators before it looks the path up
resolve(p) == normpath(p)

exists(f, p) ==
  resolve(p) = <<>> \/ (resolve(p) \in Universe /\ f[resolve(p)] # "none")

isdir(f, p) ==
  resolve(p) = <<>> \/ (resolve(p) \in Universe /\ f[resolve(p)] = "dir")

isfile(f, p) ==
  resolve(p) \in Universe /\ f[resolve(p)] \notin {"none", "dir"}

WellFormed(f) ==
  \A p \in Universe : f[p] # "none" => isdir(f, Parent(p))

basename(p) == IF p = <<>> THEN "" ELSE p[Len(p)]

dirname(p) == Parent(p)

relpath(fpath, base) == SubSeq(fpath, Len(base) + 1, Len(fpath))

\* os.path.join(base, rel): a rel that starts at the root replaces base
join(base, rel) ==
  IF rel # <<>> /\ Head(rel) = "" THEN Tail(rel) ELSE base \o rel

\* ------------------------------------------------------------- archives
MANIFEST == <<"__pcsm_paths.json">>

\* str(idx) and int(idx_s) on the index tokens that occur.
Digits == <<"0", "1", "2", "3">>

str(i) == Digits[i + 1]

int(s) ==
  IF \E i \in 1..Len(Digits) : Digits[i] = s
  THEN [ok |-> TRUE, val |-> (CHOOSE i \in 1..Len(Digits) : Digits[i] = s) - 1]
  ELSE IF s = "01" THEN [ok |-> TRUE, val |-> 1]
  ELSE [ok |-> FALSE, val |-> 0]

Payload(name, bytes) ==
  [name |-> name, kind |-> "bytes", bytes |-> bytes, game |-> "", paths |-> <<>>]

\* json.dumps(meta) stored under the manifest name
ManifestEntry(game, records) ==
  [name |-> MANIFEST, kind |-> "json", bytes |-> "", game |-> game,
   paths |-> records]

\* os.listdir in place of os.walk: the files of the directory itself only
walk_flat(f, top) ==
  SelectSeq(UniverseSeq,
    LAMBDA q : Len(q) = Len(top) + 1 /\ IsPrefix(top, q)
               /\ f[q] \notin {"none", "dir"})

\* os.walk(top), files only: the files of a directory, then its
\* subdirectories in turn.
RECURSIVE walk(_, _), walk_each(_, _)
walk(f, top) ==
  LET kids  == SelectSeq(UniverseSeq,
                 LAMBDA q : Len(q) = Len(top) + 1 /\ IsPrefix(top, q)
                            /\ f[q] # "none")
      files == SelectSeq(kids, LAMBDA q : f[q] # "dir")
      dirs  == SelectSeq(kids, LAMBDA q : f[q] = "dir")
  IN  files \o walk_each(f, dirs)

walk_each(f, dirs) ==
  IF dirs = <<>> THEN <<>>
  ELSE walk(f, Head(dirs)) \o walk_each(f, Tail(dirs))

\* z.write(fpath, arcname) inside its try/except: the entry, or a warning.
zip_write(f, unreadable, fpath, arcname) ==
  IF isfile(f, fpath) /\ fpath \notin unreadable
  THEN [entries |-> <<Payload(arcname, f[fpath])>>, log |-> <<>>]
  ELSE [entries |-> <<>>, log |-> <<fpath>>]

\* one try/except around the whole loop: the first unreadable file ends it
RECURSIVE write_files_abort(_, _, _, _, _)
write_files_abort(f, unreadable, idx, base, files) ==
  IF files = <<>> THEN [entries |-> <<>>, log |-> <<>>]
  ELSE LET fpath == Head(files)
           rel   == relpath(fpath, base)
           one   == zip_write(f, unreadable, fpath, <<str(idx)>> \o rel)
           rest  == write_files_abort(f, unreadable, idx, base, Tail(files))
       IN  IF one.entries = <<>> THEN one
           ELSE [entries |-> one.entries \o rest.entries, log |-> rest.log]

RECURSIVE write_files(_, _, _, _, _)
write_files(f, unreadable, idx, base, files) ==
  IF files = <<>> THEN [entries |-> <<>>, log |-> <<>>]
  ELSE LET fpath == Head(files)
           rel   == relpath(fpath, base)
           one   == zip_write(f, unreadable, fpath, <<str(idx)>> \o rel)
           rest  == write_files(f, unreadable, idx, base, Tail(files))
       IN  [entries |-> one.entries \o rest.entries,
            log     |-> one.log \o rest.log]

\* records.append moved behind z.write: a file that is skipped gets no record
RECURSIVE backup_loop_late_record(_, _, _, _)
backup_loop_late_record(f, unreadable, paths, i) ==
  IF i > Len(paths) THEN [records |-> <<>>, entries |-> <<>>, log |-> <<>>]
  ELSE
    LET idx  == i - 1
        base == normpath(paths[i])
        rest == backup_loop_late_record(f, unreadable, paths, i + 1)
        this ==
          IF isdir(f, base)
          THEN [rec |-> <<[index |-> idx, type |-> "dir", base |-> base]>>,
                out |-> write_files(f, unreadable, idx, base, walk(f, base))]
          ELSE LET w == zip_write(f, unreadable, base,
                                  <<str(idx), basename(base)>>)
               IN  [rec |-> IF w.entries = <<>> THEN <<>>
                            ELSE <<[index |-> idx, type |-> "file",
                                    base |-> base]>>,
                    out |-> w]
    IN  [records |-> this.rec \o rest.records,
         entries |-> this.out.entries \o rest.entries,
         log     |-> this.out.log \o rest.log]

\* the single file stored under its whole path instead of its base name
RECURSIVE backup_loop_full_name(_, _, _, _)
backup_loop_full_name(f, unreadable, paths, i) ==
  IF i > Len(paths) THEN [records |-> <<>>, entries |-> <<>>, log |-> <<>>]
  ELSE
    LET idx  == i - 1
        base == normpath(paths[i])
        rest == backup_loop_full_name(f, unreadable, paths, i + 1)
        this ==
          IF isdir(f, base)
          THEN [rec |-> [index |-> idx, type |-> "dir", base |-> base],
                out |-> write_files(f, unreadable, idx, base, walk(f, base))]
          ELSE [rec |-> [index |-> idx, type |-> "file", base |-> base],
                out |-> zip_write(f, unreadable, base, <<str(idx)>> \o base)]
    IN  [records |-> <<this.rec>> \o rest.records,
         entries |-> this.out.entries \o rest.entries,
         log     |-> this.out.log \o rest.log]

\* the loop "for idx, base in enumerate(paths)" from position i on
RECURSIVE backup_loop(_, _, _, _)
backup_loop(f, unreadable, paths, i) ==
  IF i > Len(paths) THEN [records |-> <<>>, entries |-> <<>>, log |-> <<>>]
  ELSE
    LET idx  == i - 1
        base == normpath(paths[i])
        rest == backup_loop(f, unreadable, paths, i + 1)
        this ==
          IF isdir(f, base)
          THEN [rec |-> [index |-> idx, type |-> "dir", base |-> base],
                out |-> write_files(f, unreadable, idx, base, walk(f, base))]
          ELSE [rec |-> [index |-> idx, type |-> "file", base |-> base],
                out |-> zip_write(f, unreadable, base,
                                  <<str(idx), basename(base)>>)]
    IN  [records |-> <<this.rec>> \o rest.records,
         entries |-> this.out.entries \o rest.entries,
         log     |-> this.out.log \o rest.log]

\* make_backup(game_name, paths, backup_root, log_widget)
make_backup(game_name, paths, f, unreadable) ==
  LET loop == backup_loop(f, unreadable, paths, 1)
  IN  [zip      |-> loop.entries \o <<ManifestEntry(game_name, loop.records)>>,
       log      |-> loop.log,
       zip_path |-> <<"backup_root", game_name>>]

\* --------------------------------------------------------------- restore
\* z.read("__pcsm_paths.json") and json.loads: the entry of that name that
\* was written last, when it holds JSON.
read_manifest(z) ==
  LET hits == {i \in 1..Len(z) : z[i].name = MANIFEST}
      last == CHOOSE i \in hits : \A j \in hits : j <= i
  IN  IF hits = {} \/ z[last].kind # "json"
      THEN [ok |-> FALSE, paths |-> <<>>]
      ELSE [ok |-> TRUE, paths |-> z[last].paths]

\* index_map = {p["index"]: p for p in paths_meta}; index_map.get(idx)
index_map_get(paths_meta, idx) ==
  LET hits == {i \in 1..Len(paths_meta) : paths_meta[i].index = idx}
      last == CHOOSE i \in hits : \A j \in hits : j <= i
  IN  IF hits = {}
      THEN [found |-> FALSE, rec |-> [index |-> idx, type |-> "", base |-> <<>>]]
      ELSE [found |-> TRUE, rec |-> paths_meta[last]]

\* analyze's destination without the test for the kind of the record
analyze_entry_join(paths_meta, zinfo) ==
  LET skip  == [ok |-> FALSE, dest |-> <<>>]
      fname == zinfo.name
  IN  IF fname = MANIFEST \/ basename(fname) = "" THEN skip
      ELSE IF Len(fname) < 2 THEN skip
      ELSE LET idx   == int(Head(fname))
               got   == index_map_get(paths_meta, idx.val)
           IN  IF ~idx.ok THEN skip
               ELSE IF ~got.found THEN skip
               ELSE [ok |-> TRUE, dest |-> join(got.rec.base, Tail(fname))]

\* the body of analyze's loop for one zinfo: skipped, or its destination
analyze_entry(paths_meta, zinfo) ==
  LET skip  == [ok |-> FALSE, dest |-> <<>>]
      fname == zinfo.name
  IN  IF fname = MANIFEST \/ basename(fname) = "" THEN skip
      ELSE IF Len(fname) < 2 THEN skip
      ELSE LET idx_s == Head(fname)
               rel   == Tail(fname)
               idx   == int(idx_s)
           IN  IF ~idx.ok THEN skip
               ELSE LET got == index_map_get(paths_meta, idx.val)
                    IN  IF ~got.found THEN skip
                        ELSE [ok   |-> TRUE,
                              dest |-> IF got.rec.type = "dir"
                                       THEN join(got.rec.base, rel)
                                       ELSE got.rec.base]

\* "conflict = os.path.exists(dest)": the last eligible entry decides
RECURSIVE analyze_loop_last(_, _, _, _)
analyze_loop_last(f, paths_meta, z, i) ==
  IF i > Len(z) THEN [conflict |-> FALSE, file_count |-> 0]
  ELSE LET t    == analyze_entry(paths_meta, z[i])
           rest == analyze_loop_last(f, paths_meta, z, i + 1)
       IN  IF ~t.ok THEN rest
           ELSE [conflict   |-> IF rest.file_count > 0 THEN rest.conflict
                                ELSE exists(f, t.dest),
                 file_count |-> 1 + rest.file_count]

RECURSIVE analyze_loop(_, _, _, _)
analyze_loop(f, paths_meta, z, i) ==
  IF i > Len(z) THEN [conflict |-> FALSE, file_count |-> 0]
  ELSE LET t    == analyze_entry(paths_meta, z[i])
           rest == analyze_loop(f, paths_meta, z, i + 1)
       IN  IF ~t.ok THEN rest
           ELSE [conflict   |-> exists(f, t.dest) \/ rest.conflict,
                 file_count |-> 1 + rest.file_count]

\* analyze() without the check for an empty paths list
analyze_unchecked(z, f) ==
  LET meta == read_manifest(z)
  IN  IF ~meta.ok
      THEN [ok |-> FALSE, err |-> "Backup missing metadata.",
            conflict |-> FALSE, file_count |-> 0]
      ELSE LET r == analyze_loop(f, meta.paths, z, 1)
           IN  [ok |-> TRUE, err |-> "", conflict |-> r.conflict,
                file_count |-> r.file_count]

\* analyze() of App.restore_backup: the info it returns, or the error raised
analyze(z, f) ==
  LET meta == read_manifest(z)
  IN  IF ~meta.ok
      THEN [ok |-> FALSE, err |-> "Backup missing metadata.",
            conflict |-> FALSE, file_count |-> 0]
      ELSE IF meta.paths = <<>>
      THEN [ok |-> FALSE, err |-> "Metadata contains no save paths.",
            conflict |-> FALSE, file_count |-> 0]
      ELSE LET r == analyze_loop(f, meta.paths, z, 1)
           IN  [ok |-> TRUE, err |-> "", conflict |-> r.conflict,
                file_count |-> r.file_count]

\* os.makedirs(name, exist_ok=True)
RECURSIVE makedirs(_, _, _)
makedirs(f, name, unwritable) ==
  IF name = <<>> THEN [ok |-> TRUE, fs |-> f]
  ELSE
    LET up == IF exists(f, Parent(name)) THEN [ok |-> TRUE, fs |-> f]
              ELSE makedirs(f, Parent(name), unwritable)
    IN  IF ~up.ok THEN up
        ELSE IF exists(up.fs, name)
             THEN [ok |-> isdir(up.fs, name), fs |-> up.fs]
        ELSE IF ~isdir(up.fs, Parent(name)) \/ resolve(name) \in unwritable
                \/ resolve(name) \notin Universe
             THEN [ok |-> FALSE, fs |-> up.fs]
        ELSE [ok |-> TRUE, fs |-> [up.fs EXCEPT ![resolve(name)] = "dir"]]

\* open(dest, "wb") and shutil.copyfileobj(src, dst)
write_dest(f, dest, bytes, unwritable) ==
  IF resolve(dest) \notin Universe \/ isdir(f, dest) \/ ~isdir(f, Parent(dest))
     \/ resolve(dest) \in unwritable
  THEN [ok |-> FALSE, fs |-> f]
  ELSE [ok |-> TRUE, fs |-> [f EXCEPT ![resolve(dest)] = bytes]]

\* "index_map.get(idx, paths_meta[0])": an unknown index falls back to the
\* first record
restore_entry_default(paths_meta, zinfo) ==
  LET skip  == [ok |-> FALSE, dest |-> <<>>]
      fname == zinfo.name
  IN  IF fname = MANIFEST \/ basename(fname) = "" THEN skip
      ELSE IF Len(fname) < 2 THEN skip
      ELSE LET idx_s == Head(fname)
               rel   == Tail(fname)
               idx   == int(idx_s)
           IN  IF ~idx.ok \/ paths_meta = <<>> THEN skip
               ELSE LET got == index_map_get(paths_meta, idx.val)
                        rec == IF got.found THEN got.rec ELSE paths_meta[1]
                    IN  [ok   |-> TRUE,
                         dest |-> IF rec.type = "dir" THEN join(rec.base, rel)
                                  ELSE rec.base]

\* the body of do_restore's loop for one zinfo: skipped, or its destination
restore_entry(paths_meta, zinfo) ==
  LET skip  == [ok |-> FALSE, dest |-> <<>>]
      fname == zinfo.name
  IN  IF fname = MANIFEST \/ basename(fname) = "" THEN skip
      ELSE IF Len(fname) < 2 THEN skip
      ELSE LET idx_s == Head(fname)
               rel   == Tail(fname)
               idx   == int(idx_s)
           IN  IF ~idx.ok THEN skip
               ELSE LET got == index_map_get(paths_meta, idx.val)
                    IN  IF ~got.found THEN skip
                        ELSE [ok   |-> TRUE,
                              dest |-> IF got.rec.type = "dir"
                                       THEN join(got.rec.base, rel)
                                       ELSE got.rec.base]

\* do_restore's loop from entry i on.  acc: the filesystem, the count and
\* the positions written so far.  An exception leaves the loop at once.
RECURSIVE restore_loop(_, _, _, _, _)
restore_loop(acc, paths_meta, z, i, unwritable) ==
  IF i > Len(z) THEN acc
  ELSE
    CHOOSE r \in
      {IF ~t.ok THEN restore_loop(a, paths_meta, z, i + 1, unwritable)
       ELSE
         CHOOSE r1 \in
           {IF ~md.ok
            THEN [a EXCEPT !.ok = FALSE, !.fs = md.fs, !.failed = i]
            ELSE
              CHOOSE r2 \in
                {IF ~wr.ok
                 THEN [a EXCEPT !.ok = FALSE, !.fs = wr.fs, !.failed = i]
                 ELSE restore_loop(
                        [a EXCEPT !.fs = wr.fs, !.count = a.count + 1,
                                  !.written = Append(a.written, i)],
                        paths_meta, z, i + 1, unwritable) :
                 wr \in {write_dest(md.fs, t.dest, z[i].bytes, unwritable)}} :
                TRUE :
            md \in {makedirs(a.fs, dirname(t.dest), unwritable)}} : TRUE :
       a \in {acc}, t \in {restore_entry(paths_meta, z[i])}} : TRUE

\* do_restore() of App.restore_backup: the count it returns (ok), or the
\* state it leaves behind when an exception ends it.
do_restore(z, f, unwritable) ==
  LET meta  == read_manifest(z)
      start == [ok |-> TRUE, fs |-> f, count |-> 0, written |-> <<>>,
                failed |-> 0]
  IN  IF ~meta.ok THEN [start EXCEPT !.ok = FALSE]
      ELSE restore_loop(start, meta.paths, z, 1, unwritable)

\* after_analyze without the question
after_analyze_unasked(info) == "Applying"

\* after_analyze that returns on a conflict without asking
after_analyze_silent(info) ==
  IF info.conflict THEN "ConflictDetected" ELSE "Applying"

\* after_analyze(info): ask before overwriting, then start the apply phase
after_analyze(info) ==
  IF info.conflict THEN "AwaitingConfirm" ELSE "Applying"

\* ------------------------------------------------------------ path hints
\* A Windows path string is the sequence of the pieces between its
\* backslashes: "C:\Users\me" is <<"C:", "Users", "me">>, "\Users\bob" is
\* <<"", "Users", "bob">> and "C:\" is <<"C:", "">>.
Drives == {"C:"}

\* os.path.expanduser("~")
home == <<"C:", "Users", "me">>

\* the variables read with os.environ.get, and the value Windows gives each
EnvNames ==
  {"HOMEPATH", "HOMEDRIVE", "APPDATA", "LOCALAPPDATA", "PROGRAMDATA", "PUBLIC"}

WinValue(n) ==
  CASE n = "HOMEPATH"     -> <<"", "Users", "me">>
    [] n = "HOMEDRIVE"    -> <<"C:">>
    [] n = "APPDATA"      -> <<"C:", "Users", "me", "AppData", "Roaming">>
    [] n = "LOCALAPPDATA" -> <<"C:", "Users", "me", "AppData", "Local">>
    [] n = "PROGRAMDATA"  -> <<"C:", "ProgramData">>
    [] OTHER              -> <<"C:", "Users", "Public">>

\* os.environ.get(n, default); environ is the set of the variables that are set
environ_get(environ, n, default) ==
  IF n \in environ THEN WinValue(n) ELSE default

\* str.lower on the first pieces that occur
lower(s) ==
  CASE s \in {"Documents", "documents", "DOCUMENTS"} -> "documents"
    [] s \in {"Saved Games", "saved games"}          -> "saved games"
    [] s = "AppData"       -> "appdata"
    [] s = "OneDrive"      -> "onedrive"
    [] s = "C:"            -> "c:"
    [] s = "%APPDATA%"     -> "%appdata%"
    [] s = "%HOMEPATH%"    -> "%homepath%"
    [] s = "%WINDIR%"      -> "%windir%"
    [] s \in {"Game", "GAME"} -> "game"
    [] OTHER               -> s

\* ntpath.join(a, b)
nt_join(a, b) ==
  IF b[1] \in Drives THEN b
  ELSE IF b[1] = "" /\ Len(b) >= 2 THEN <<a[1]>> \o Tail(b)
  ELSE IF a[Len(a)] = "" THEN SubSeq(a, 1, Len(a) - 1) \o b
  ELSE a \o b

\* "for k, v in env.items(): p = p.replace(k, v)" on one piece of p
env_value(environ, s) ==
  CASE s = "%USERPROFILE%"  -> home
    [] s = "%HOMEPATH%"     -> environ_get(environ, "HOMEPATH", home)
    [] s = "%HOMEDRIVE%"    -> environ_get(environ, "HOMEDRIVE", <<"C:">>)
    [] s = "%APPDATA%"      ->
         environ_get(environ, "APPDATA", nt_join(home, <<"AppData", "Roaming">>))
    [] s = "%LOCALAPPDATA%" ->
         environ_get(environ, "LOCALAPPDATA", nt_join(home, <<"AppData", "Local">>))
    [] s = "%PROGRAMDATA%"  ->
         environ_get(environ, "PROGRAMDATA", <<"C:", "ProgramData">>)
    [] s = "%PUBLIC%"       ->
         environ_get(environ, "PUBLIC", <<"C:", "Users", "Public">>)
    [] OTHER                -> <<s>>

RECURSIVE env_replace(_, _)
env_replace(environ, p) ==
  IF p = <<>> THEN <<>>
  ELSE env_value(environ, Head(p)) \o env_replace(environ, Tail(p))

\* p.replace("/", "\\"): a piece with a slash becomes two pieces
RECURSIVE slashes(_)
slashes(p) ==
  IF p = <<>> THEN <<>>
  ELSE (IF Head(p) = "sub/dir" THEN <<"sub", "dir">> ELSE <<Head(p)>>)
       \o slashes(Tail(p))

\* the loop of ntpath.normpath over the pieces after the drive and root
RECURSIVE norm_comps(_, _, _)
norm_comps(p, acc, rooted) ==
  IF p = <<>> THEN acc
  ELSE IF Head(p) \in {"", "."} THEN norm_comps(Tail(p), acc, rooted)
  ELSE IF Head(p) = ".." THEN
    IF acc # <<>> /\ acc[Len(acc)] # ".."
    THEN norm_comps(Tail(p), SubSeq(acc, 1, Len(acc) - 1), rooted)
    ELSE IF acc = <<>> /\ rooted THEN norm_comps(Tail(p), acc, rooted)
    ELSE norm_comps(Tail(p), Append(acc, ".."), rooted)
  ELSE norm_comps(Tail(p), Append(acc, Head(p)), rooted)

\* ntpath.normpath
normpath_nt(p) ==
  LET drive  == IF p[1] \in Drives THEN <<p[1]>> ELSE <<>>
      rest   == IF drive = <<>> THEN p ELSE Tail(p)
      rooted == IF drive = <<>> THEN Len(p) >= 2 /\ p[1] = ""
                ELSE Len(p) >= 2
      comps  == norm_comps(rest, <<>>, rooted)
      prefix == IF rooted /\ drive = <<>> THEN <<"">> ELSE drive
  IN  IF rooted /\ comps = <<>> THEN prefix \o <<"">>
      ELSE IF prefix = <<>> /\ comps = <<>> THEN <<".">>
      ELSE prefix \o comps

\* expand_path_hint(h) in the environment environ
expand_path_hint(h, environ) ==
  LET docs  == nt_join(home, <<"Documents">>)
      saved == nt_join(home, <<"Saved Games">>)
      p1    == IF Len(h) >= 2 /\ h[1] = "~" THEN nt_join(home, Tail(h)) ELSE h
      l     == lower(p1[1])
      p2    == IF Len(p1) >= 2 /\ l = "documents" THEN nt_join(docs, Tail(p1))
               ELSE IF Len(p1) >= 2 /\ l = "saved games"
               THEN nt_join(saved, Tail(p1))
               ELSE p1
  IN  normpath_nt(slashes(env_replace(environ, p2)))

\* the alternatives of "patterns" on a candidate c: a drive path, %VAR%\,
\* ~\, \Users\<name>\, Documents\, Saved Games\, AppData\Roaming\,
\* AppData\Local\, OneDrive\Documents\, each followed by at least one character
VarTokens ==
  {"%USERPROFILE%", "%HOMEPATH%", "%HOMEDRIVE%", "%APPDATA%", "%LOCALAPPDATA%",
   "%PROGRAMDATA%", "%PUBLIC%", "%WINDIR%", "%appdata%"}

more_after(c, k) == Len(c) > k /\ ~(Len(c) = k + 1 /\ c[k + 1] = "")

pattern_match(c) ==
  \/ c[1] \in Drives /\ more_after(c, 1)
  \/ c[1] \in VarTokens /\ more_after(c, 1)
  \/ c[1] = "~" /\ more_after(c, 1)
  \/ Len(c) >= 3 /\ c[1] = "" /\ c[2] = "Users" /\ c[3] # "" /\ more_after(c, 3)
  \/ c[1] = "Documents" /\ more_after(c, 1)
  \/ c[1] = "Saved Games" /\ more_after(c, 1)
  \/ Len(c) >= 2 /\ c[1] = "AppData" /\ c[2] \in {"Roaming", "Local"}
     /\ more_after(c, 2)
  \/ Len(c) >= 2 /\ c[1] = "OneDrive" /\ c[2] = "Documents" /\ more_after(c, 2)

\* c.strip().rstrip(". ;:\"')(") on the last piece of a candidate
rstrip(s) ==
  CASE s = "saves." -> "saves"
    [] s = "GameX)" -> "GameX"
    [] s = "."      -> ""
    [] OTHER        -> s

\* the hints of the wiki pages that occur, in the order of sorted()
H1 == <<"%APPDATA%", "GameX", "saves">>
H2 == <<"Documents", "My Games", "GameX">>
HintSeq ==
  <<H1, <<"C:", "">>, <<"C:", "GameX">>, H2, <<"~", "GameX">>>>

\* sorted(set(xs)) for a list of hints
sorted_hints(xs) ==
  SelectSeq(HintSeq, LAMBDA h : \E i \in 1..Len(xs) : xs[i] = h)

\* an extractor whose trimming also removes a separator left at the end,
\* and that keeps every candidate
extract_trim_separator(html) ==
  LET candidates == SelectSeq(html, pattern_match)
      clean(c)   == IF rstrip(c[Len(c)]) = "" THEN SubSeq(c, 1, Len(c) - 1)
                    ELSE [c EXCEPT ![Len(c)] = rstrip(c[Len(c)])]
  IN  [i \in 1..Len(candidates) |-> clean(candidates[i])]

\* extract_windows_paths_from_html on a page, given as the pieces of its
\* text that a path could start in
extract_windows_paths_from_html(html) ==
  LET candidates == SelectSeq(html, pattern_match)
      clean(c)   == [c EXCEPT ![Len(c)] = rstrip(c[Len(c)])]
      cleaned    == [i \in 1..Len(candidates) |-> clean(candidates[i])]
  IN  sorted_hints(SelectSeq(cleaned, LAMBDA p : Len(p) >= 2))

\* the environment of the discovery runs: Windows, every variable set
WinEnv == EnvNames

\* the paths the hints of the pages resolve to, in the order of sorted()
PathSeq ==
  << <<"C:", "Users", "me", "AppData", "Roaming", "GameX", "saves">>,
     <<"C:", "Users", "me", "Documents", "My Games", "GameX">> >>

\* enumerate_existing_paths that returns the list "found" as the loop built it
enumerate_existing_list(hints, disk) ==
  LET exp == [i \in 1..Len(hints) |-> expand_path_hint(hints[i], WinEnv)]
  IN  SelectSeq(exp, LAMBDA p : p \in disk)

\* enumerate_existing_paths(hints); disk is the set of the paths that exist
enumerate_existing_paths(hints, disk) ==
  LET found == {expand_path_hint(hints[i], WinEnv) : i \in 1..Len(hints)} \cap disk
  IN  SelectSeq(PathSeq, LAMBDA p : p \in found)

\* ----------------------------------------------------------------- cache
\* The cache file holds one JSON object: lower-cased game name -> {"hints":
\* [...]}, and "last_backup_dir" -> a directory.
CacheKeys == {"game", "last_backup_dir"}

Absent == [kind |-> "absent", hints |-> <<>>, val |-> ""]

HintsEntry(hints) == [kind |-> "hints", hints |-> hints, val |-> ""]

StrEntry(d) == [kind |-> "str", hints |-> <<>>, val |-> d]

EmptyCache == [k \in CacheKeys |-> Absent]

\* load_cache(): the mapping of the file, {} when there is none
load_cache(file) == IF file.present THEN file.data ELSE EmptyCache

\* save_cache(data)
save_cache(data) == [present |-> TRUE, data |-> data]

\* "cache[key] = value; save_cache(cache)" on the mapping that was loaded;
\* this one reads the file again before it writes
cache_store_merge(loaded, file, key, value) ==
  save_cache([load_cache(file) EXCEPT ![key] = value])

\* "cache[key] = value; save_cache(cache)" on the mapping that was loaded
cache_store(loaded, file, key, value) ==
  save_cache([loaded EXCEPT ![key] = value])

\* ------------------------------------------------------------------ wiki
None == "None"

\* "not x" for a string or None
not(x) == x \in {None, ""}

\* the replies to the opensearch request: the decoded JSON list
SearchReplies ==
  { << <<"query">> >>, << <<"query">>, <<>> >>, << <<"query">>, <<"GameX">> >> }

pcgw_search_title(data) ==
  IF Len(data) >= 2 /\ data[2] # <<>> THEN data[2][1] ELSE None

\* s.get("line", "").strip().lower()
heading(line) ==
  CASE line = "Save game data location"         -> "save game data location"
    [] line = " Save Game Data Location "       -> "save game data location"
    [] line = "Save game data location (Steam)" -> "save game data location (steam)"
    [] line = "Availability"                    -> "availability"
    [] OTHER                                    -> line

\* "save game data location" in s
has_heading(s) ==
  s \in {"save game data location", "save game data location (steam)"}

\* the replies to the sections request: data["parse"]["sections"]
SectionReplies ==
  { <<>>,
    << [line |-> "Availability", index |-> "1"] >>,
    << [line |-> "Save game data location (Steam)", index |-> "4"],
       [line |-> " Save Game Data Location ", index |-> "7"] >>,
    << [line |-> "Availability", index |-> "1"],
       [line |-> "Save game data location (Steam)", index |-> "4"] >>,
    << [line |-> "Save game data location", index |-> None] >> }

pcgw_find_save_section_index(sections) ==
  LET exact == {i \in 1..Len(sections) :
                  heading(sections[i].line) = "save game data location"}
      part  == {i \in 1..Len(sections) : has_heading(heading(sections[i].line))}
      first(S) == CHOOSE i \in S : \A j \in S : i <= j
  IN  IF exact # {} THEN sections[first(exact)].index
      ELSE IF part # {} THEN sections[first(part)].index
      ELSE None

\* the texts of the section that occur
Pages ==
  { <<>>,
    << <<"Games", "GameX">> >>,
    << H2, <<"Games", "GameX">>, H1 >>,
    << <<"%APPDATA%", "GameX", "saves.">>, H1 >> }

\* the replies to the text request: the decoded JSON object
TextReplies ==
  {[parse |-> FALSE, text |-> <<>>]} \cup {[parse |-> TRUE, text |-> t] : t \in Pages}

\* data.get("parse", {}).get("text", {}).get("*", "")
pcgw_get_save_section_html(data) == IF data.parse THEN data.text ELSE <<>>

\* -------------------------------------------------------- archive names
\* the directory make_backup is handed as backup_root
BackupRoot == <<"C:", "Backups">>

\* the game names handed to make_backup
BackupNames == {"Game", "", " ", "A/B", "A_B", ".", ".."}

\* re.sub(r"[^\w\s.-]", "_", game_name) on the names that occur
re_sub(game_name) == IF game_name = "A/B" THEN "A_B" ELSE game_name

\* str.strip on the names that occur
strip(s) == IF s = " " THEN "" ELSE s

\* safe_name = re.sub(...).strip() or "Game"
safe_name(game_name) ==
  IF strip(re_sub(game_name)) = "" THEN "Game" ELSE strip(re_sub(game_name))

\* out_dir = os.path.join(backup_root, safe_name)
out_dir(backup_root, game_name) == nt_join(backup_root, <<safe_name(game_name)>>)

\* the clock counts ticks; strftime("%Y%m%d_%H%M%S") keeps the whole seconds
TicksPerSecond == 2

strftime(now) == now \div TicksPerSecond

\* zip_path = os.path.join(out_dir, f"{safe_name}_{timestamp}.zip"): the
\* directory the file is in, and the two parts of its name
zip_path(backup_root, game_name, now) ==
  [dir  |-> normpath_nt(out_dir(backup_root, game_name)),
   stem |-> safe_name(game_name),
   timestamp |-> strftime(now)]

\* ---------------------------------------------------------------- state
VARIABLES
  fs,        \* the filesystem
  envSteps,  \* changes made by something else so far
  bk,        \* the last make_backup call: its inputs and what it returned
  rs,        \* the restore run: its state, the archive, analyze's info, the count
  rlog,      \* what the restore run did: filesystems it saw, entries it wrote
  cacheFile, \* the cache file
  disk,      \* the paths of save games that exist
  app,       \* the fields and widgets of App used by discovery
  wk,        \* the worker thread running find_save_paths
  queue,     \* the event queue of the main loop
  hist,      \* what was done so far: cache writes, callbacks, writers of app
  rsv,       \* one call of expand_path_hint: the hint, the environment, the result
  arc,       \* the clock, and the archives written below the backup root
  sg         \* the suggestion box of the game entry and its queries

vars ==
  <<fs, envSteps, bk, rs, rlog, cacheFile, disk, app, wk, queue, hist, rsv, arc, sg>>

\* the variables of discovery, left alone by backup and restore
dvars == <<cacheFile, disk, app, wk, queue, hist, rsv, arc, sg>>

EmptyFS == [p \in Universe |-> "none"]

NoBackup ==
  [done |-> FALSE, paths |-> <<>>, fs0 |-> EmptyFS, unreadable |-> {},
   zip |-> <<>>, log |-> <<>>, zip_path |-> <<>>]

NoInfo == [conflict |-> FALSE, file_count |-> 0]

NoRestore ==
  [state |-> "Idle", zip |-> <<>>, info |-> NoInfo, count |-> 0, err |-> ""]

NoLog ==
  [anaFs |-> EmptyFS, applyFs |-> EmptyFS, asked |-> FALSE, approved |-> FALSE,
   applied |-> FALSE, written |-> <<>>, failed |-> 0, unwritable |-> {}, shown |-> ""]

\* the cache file is not there
NoFile == [present |-> FALSE, data |-> EmptyCache]

\* the widgets and fields of App that the handlers of discovery touch
App0 ==
  [found_paths |-> <<>>, paths_list |-> <<>>, backup_btn |-> "disabled",
   log |-> <<>>, show_count |-> 0, win |-> FALSE, grab |-> FALSE, shown |-> "",
   backup_dir |-> "GameSaveBackups", runs |-> 0, browses |-> 0, clicks |-> 0,
   found_for |-> "",
   loaded |-> [active |-> FALSE, cache |-> EmptyCache, base |-> 0]]

\* no worker thread
NoWorker ==
  [pc |-> "idle", run |-> 0, game |-> "", key |-> "", cache |-> EmptyCache,
   base |-> 0, title |-> None, hints |-> <<>>, found |-> <<>>,
   hit |-> FALSE, why |-> "", reqs |-> <<>>, err |-> "", stored |-> NoFile]

NoHist == [file0 |-> NoFile, saved |-> <<>>, writers |-> {}, invoked |-> <<>>]

NoHint ==
  [hint |-> <<"~", "G">>, environ |-> {}, out |-> <<>>, done |-> FALSE,
   html |-> <<>>, hints |-> <<>>, extracted |-> FALSE,
   found |-> <<>>, again |-> <<>>, calls |-> 0,
   reout |-> <<>>, redone |-> FALSE]

\* no backup made yet, the clock at its start
NoArchives ==
  [clock |-> 0, files |-> {}, made |-> <<>>, threads |-> {}, calls |-> <<>>]

\* no timer of after(300, ...) is waiting
NoQuery == [text |-> "", seq |-> 0]

\* self.suggestion_box is None
NoBox == [open |-> FALSE, results |-> <<>>, query |-> "", seq |-> 0]

\* the game entry empty, the Backup tab shown, the suggestion box closed, no
\* query issued
NoSuggest ==
  [entry |-> "", tab |-> 0, suggest_seq |-> 0, timer |-> NoQuery, workers |-> {},
   posted |-> <<>>, box |-> NoBox, suppress_suggestions |-> FALSE,
   unsuppress |-> FALSE, keys |-> 0, tabs |-> 0, selected |-> FALSE]

\* the other half of the program at rest
DiscoveryOff ==
  /\ cacheFile = NoFile
  /\ disk = {}
  /\ app = App0
  /\ wk = NoWorker
  /\ queue = <<>>
  /\ hist = NoHist

InitFS ==
  {f \in [Universe -> {"none", "dir", "file"}] : WellFormed(f)}

Init ==
  /\ \E f \in InitFS :
       fs = [p \in Universe |-> IF f[p] = "file" THEN Content0(p) ELSE f[p]]
  /\ envSteps = 0
  /\ bk = NoBackup
  /\ rs = NoRestore
  /\ rlog = NoLog
  /\ DiscoveryOff
  /\ rsv = NoHint
  /\ arc = NoArchives
  /\ sg = NoSuggest

\* self.found_paths: what enumerate_existing_paths returns, sorted(set(found)),
\* a sorted duplicate-free list of existing paths
PathLists(f) ==
  {SelectSeq(UniverseSeq, LAMBDA p : p \in E) :
     E \in {X \in SUBSET {p \in Universe : exists(f, p)} :
              Cardinality(X) <= MaxPaths}}

FailSets(S) == {U \in SUBSET S : Cardinality(U) <= MaxFail}

\* the files make_backup will try to read: a file that is not among them
\* cannot make a difference, readable or not
FilesUnder(f, paths) ==
  {q \in Universe : isfile(f, q) /\ \E i \in 1..Len(paths) : IsPrefix(paths[i], q)}

\* the worker of App.on_backup
MakeBackup ==
  /\ ~bk.done
  /\ rs.state = "Idle"
  /\ \E paths \in PathLists(fs) :
     \E unreadable \in FailSets(FilesUnder(fs, paths)) :
       LET r == make_backup("G", paths, fs, unreadable)
       IN  bk' = [done |-> TRUE, paths |-> paths, fs0 |-> fs,
                  unreadable |-> unreadable, zip |-> r.zip, log |-> r.log,
                  zip_path |-> r.zip_path]
  /\ UNCHANGED <<dvars, fs, envSteps, rs, rlog>>

\* the paths do_restore will try to create: a path that is not among them
\* cannot make a difference, writable or not
Touched(z) ==
  UNION {UNION {{resolve(SubSeq(t.dest, 1, n)) : n \in 1..Len(t.dest)}
                  \cap Universe :
                t \in {e \in {restore_entry(meta.paths, z[i]) : i \in 1..Len(z)} :
                         e.ok}} :
         meta \in {read_manifest(z)}}

\* the paths a restore of the backup, or the restore that is running, can
\* meet: the filesystem elsewhere makes no difference to it
Relevant ==
  IF rs.state = "Idle"
  THEN {q \in Universe :
          \E i \in 1..Len(bk.paths) :
             IsPrefix(q, bk.paths[i]) \/ IsPrefix(bk.paths[i], q)}
  ELSE Touched(rs.zip)

\* Something other than the program changes the filesystem, after the backup
\* or while the restore waits for its next step: everything is gone (another
\* machine, a fresh install), or one file is written.
EnvChange ==
  /\ envSteps < MaxEnv
  /\ \/ bk.done /\ rs.state = "Idle"
     \/ rs.state \in {"NoConflict", "ConflictDetected", "AwaitingConfirm"}
  /\ envSteps' = envSteps + 1
  /\ \/ fs' = EmptyFS /\ fs # EmptyFS
     \/ \E p \in Relevant :
          /\ ~isdir(fs, p) /\ isdir(fs, Parent(p))
          /\ fs' = [fs EXCEPT ![p] = "bx"]
  /\ UNCHANGED <<dvars, bk, rs, rlog>>

\* archives that were not written by make_backup
Foreign ==
  LET e == Payload(<<"0", "f">>, "bz")
      recS == [index |-> 0, type |-> "dir", base |-> <<"S">>]
      recT == [index |-> 1, type |-> "file", base |-> <<"T">>]
  IN  { <<e>>,
        <<e, [ManifestEntry("G", <<>>) EXCEPT !.kind = "garbage"]>>,
        <<e, ManifestEntry("G", <<>>)>>,
        <<e, Payload(<<"x", "f">>, "bz"), Payload(<<"01", "T">>, "by"),
          Payload(<<"2", "f">>, "bz"), Payload(<<"readme">>, "bz"),
          Payload(<<"0", "d", "">>, ""), ManifestEntry("G", <<recS, recT>>)>>,
        <<Payload(<<"0", "..", "T">>, "bz"), Payload(<<"0", "", "T">>, "by"),
          ManifestEntry("G", <<recS>>)>> }

\* the manifest of z without its record at position k
DropRecord(z, k) ==
  LET n == Len(z)
      recs == z[n].paths
  IN  [z EXCEPT ![n].paths =
         SubSeq(recs, 1, k - 1) \o SubSeq(recs, k + 1, Len(recs))]

\* The archives the user can select.  A foreign archive does not depend on
\* what make_backup did, so it is selected in the runs without a backup.
Selectable ==
  IF bk.done
  THEN {bk.zip} \cup {DropRecord(bk.zip, k) : k \in 1..Len(bk.paths)}
  ELSE Foreign

\* App.restore_backup: a valid zip is selected, analyze() is started
restore_backup ==
  /\ rs.state = "Idle"
  /\ \E z \in Selectable : rs' = [NoRestore EXCEPT !.state = "Analyzing", !.zip = z]
  /\ UNCHANGED <<dvars, fs, envSteps, bk, rlog>>

\* the worker running analyze(); its result waits in the event queue
Analyze ==
  /\ rs.state = "Analyzing"
  /\ LET r == analyze(rs.zip, fs)
     IN  rs' = [rs EXCEPT
                 !.state = IF ~r.ok THEN "AnalyzeError"
                           ELSE IF r.conflict THEN "ConflictDetected"
                           ELSE "NoConflict",
                 !.info = [conflict |-> r.conflict, file_count |-> r.file_count],
                 !.err = r.err]
  /\ rlog' = [rlog EXCEPT !.anaFs = fs]
  /\ UNCHANGED <<dvars, fs, envSteps, bk>>

\* _ok -> after_analyze(info)
AfterAnalyze ==
  /\ rs.state \in {"NoConflict", "ConflictDetected"}
  /\ rs' = [rs EXCEPT !.state = after_analyze(rs.info)]
  /\ rlog' = [rlog EXCEPT !.asked = (after_analyze(rs.info) = "AwaitingConfirm")]
  /\ UNCHANGED <<dvars, fs, envSteps, bk>>

\* askokcancel returns True: the apply phase is started
Confirm ==
  /\ rs.state = "AwaitingConfirm"
  /\ rs' = [rs EXCEPT !.state = "Applying"]
  /\ rlog' = [rlog EXCEPT !.approved = TRUE]
  /\ UNCHANGED <<dvars, fs, envSteps, bk>>

\* askokcancel returns False: after_analyze returns
Cancel ==
  /\ rs.state = "AwaitingConfirm"
  /\ rs' = [rs EXCEPT !.state = "Aborted"]
  /\ UNCHANGED <<dvars, fs, envSteps, bk, rlog>>

\* _err -> err_analyze(e, tb)
ErrAnalyze ==
  /\ rs.state = "AnalyzeError"
  /\ rs' = [rs EXCEPT !.state = "Failed"]
  /\ rlog' = [rlog EXCEPT !.shown = "Restore failed"]
  /\ UNCHANGED <<dvars, fs, envSteps, bk>>

\* the worker running do_restore(); its result waits in the event queue
DoRestore ==
  /\ rs.state = "Applying"
  /\ \E unwritable \in FailSets(Touched(rs.zip)) :
       \E r \in {do_restore(rs.zip, fs, unwritable)} :
           /\ fs' = r.fs
           /\ rs' = [rs EXCEPT !.state = IF r.ok THEN "Applied" ELSE "ApplyError",
                               !.count = IF r.ok THEN r.count ELSE 0]
           /\ rlog' = [rlog EXCEPT !.applyFs = fs, !.applied = TRUE,
                                   !.written = r.written, !.failed = r.failed,
                                   !.unwritable = unwritable]
  /\ UNCHANGED <<dvars, envSteps, bk>>

\* _ok -> after_restore(count)
AfterRestore ==
  /\ rs.state = "Applied"
  /\ rs' = [rs EXCEPT !.state = "Completed"]
  /\ rlog' = [rlog EXCEPT !.shown = "Files restored"]
  /\ UNCHANGED <<dvars, fs, envSteps, bk>>

\* _err -> err_restore(e, tb)
ErrRestore ==
  /\ rs.state = "ApplyError"
  /\ rs' = [rs EXCEPT !.state = "Failed"]
  /\ rlog' = [rlog EXCEPT !.shown = "Restore failed"]
  /\ UNCHANGED <<dvars, fs, envSteps, bk>>

Next ==
  \/ MakeBackup
  \/ EnvChange
  \/ restore_backup
  \/ Analyze
  \/ AfterAnalyze
  \/ Confirm
  \/ Cancel
  \/ ErrAnalyze
  \/ DoRestore
  \/ AfterRestore
  \/ ErrRestore

Spec == Init /\ [][Next]_vars

\* the restore run with its scheduling: the worker threads started by
\* run_async run, the callbacks they post with self.after(0, ...) are
\* served by the main loop, and the question of askokcancel is answered
Fairness ==
  /\ WF_vars(Analyze)
  /\ WF_vars(AfterAnalyze)
  /\ WF_vars(ErrAnalyze)
  /\ WF_vars(Confirm \/ Cancel)
  /\ WF_vars(DoRestore)
  /\ WF_vars(AfterRestore)
  /\ WF_vars(ErrRestore)

\* a restore run on an archive that was not made in this session
NextRestore ==
  \/ EnvChange
  \/ restore_backup
  \/ Analyze
  \/ AfterAnalyze
  \/ Confirm
  \/ Cancel
  \/ ErrAnalyze
  \/ DoRestore
  \/ AfterRestore
  \/ ErrRestore

SpecLive == Init /\ [][NextRestore]_vars /\ Fairness

\* make_backup alone, for the properties of the archive it builds
NextBackup == MakeBackup

SpecBackup == Init /\ [][NextBackup]_vars

\* ------------------------------------------------------------- discovery
\* what is typed into the game entry, and what askdirectory returns
GameNames == {"", "Game", "last_backup_dir"}

Dirs == {"D1"}

\* what the cache file holds when the program starts
CacheFiles0 ==
  { NoFile,
    save_cache([EmptyCache EXCEPT !["game"] = HintsEntry(<<H1, H2>>)]),
    save_cache([EmptyCache EXCEPT !["game"] = HintsEntry(<<>>),
                                  !["last_backup_dir"] = StrEntry("D0")]) }

\* the backup and restore half of the program at rest
RestoreOff ==
  /\ fs = EmptyFS
  /\ envSteps = 0
  /\ bk = NoBackup
  /\ rs = NoRestore
  /\ rlog = NoLog

InitDiscovery ==
  /\ RestoreOff
  /\ cacheFile \in CacheFiles0
  /\ disk \in SUBSET {PathSeq[i] : i \in 1..Len(PathSeq)}
  /\ app = App0
  /\ wk = NoWorker
  /\ queue = <<>>
  /\ hist = [NoHist EXCEPT !.file0 = cacheFile]
  /\ rsv = NoHint
  /\ arc = NoArchives
  /\ sg \in {[NoSuggest EXCEPT !.entry = game] : game \in GameNames}

\* what waits in the event queue of the main loop: the _do of a log_append,
\* or the _ok or _err of run_async
LogEvent(text) ==
  [kind |-> "log", run |-> 0, text |-> text, found |-> <<>>, why |-> "",
   game |-> ""]

Callback(w) ==
  [kind |-> IF w.pc = "return" THEN "ok" ELSE "err", run |-> w.run,
   text |-> w.err, found |-> w.found, why |-> w.why, game |-> w.game]

\* log_append that writes to the widget on any thread
log_append_direct(thread, a, q, h, text) ==
  [app |-> [a EXCEPT !.log = Append(@, text)], queue |-> q,
   hist |-> [h EXCEPT !.writers = @ \cup {thread}]]

\* log_append(widget, text) called on thread: _do() at once on the main
\* thread, widget.after(0, _do) on any other
log_append(thread, a, q, h, text) ==
  IF thread = "main"
  THEN [app |-> [a EXCEPT !.log = Append(@, text)], queue |-> q,
        hist |-> [h EXCEPT !.writers = @ \cup {thread}]]
  ELSE [app |-> a, queue |-> Append(q, LogEvent(text)), hist |-> h]

\* LoadingWindow.show(); grab tells whether grab_set() of a new window works
show(a, grab) ==
  [a EXCEPT !.show_count = @ + 1, !.win = TRUE,
            !.grab = IF a.win THEN @ ELSE grab]

\* LoadingWindow.hide() that destroys the window at every call
hide_destroy(a) ==
  LET n == IF a.show_count > 0 THEN a.show_count - 1 ELSE 0
  IN  [a EXCEPT !.show_count = n, !.win = FALSE, !.grab = FALSE]

\* LoadingWindow.hide()
hide(a) ==
  LET n == IF a.show_count > 0 THEN a.show_count - 1 ELSE 0
  IN  [a EXCEPT !.show_count = n, !.win = IF n > 0 THEN @ ELSE FALSE,
                !.grab = IF n > 0 THEN @ ELSE FALSE]

\* the main thread is not inside a handler
MainFree == ~app.loaded.active

\* no loading window holds the input grab
Usable == ~(app.show_count > 0 /\ app.grab)

\* App.on_find_paths up to the start of the worker, run_async included; the
\* grab of a new loading window may fail
on_find_paths ==
  /\ MainFree /\ Usable
  /\ wk.pc = "idle"
  /\ app.runs < MaxRuns
  /\ \E game \in {strip(sg.entry)}, grab \in BOOLEAN :
       IF game = ""
       THEN /\ grab
            /\ app' = [app EXCEPT !.shown = "Missing input"]
            /\ hist' = [hist EXCEPT !.writers = @ \cup {"main"}]
            /\ UNCHANGED <<wk, queue>>
       ELSE LET a1 == [app EXCEPT !.paths_list = <<>>, !.backup_btn = "disabled"]
                r  == log_append("main", a1, queue, hist, "Finding save paths")
            IN  /\ app.win => grab = app.grab
                /\ app' = [show(r.app, grab) EXCEPT !.runs = @ + 1]
                /\ queue' = r.queue
                /\ hist' = [r.hist EXCEPT !.writers = @ \cup {"main"}]
                /\ wk' = [NoWorker EXCEPT !.pc = "load", !.run = app.runs + 1,
                                          !.game = game]
  /\ UNCHANGED <<cacheFile, disk, rsv, arc, sg, fs, envSteps, bk, rs, rlog>>

\* find_save_paths: "cache = load_cache(); key = game_name.lower()"
FindLoad ==
  /\ wk.pc = "load"
  /\ wk' = [wk EXCEPT !.pc = "check", !.cache = load_cache(cacheFile),
                      !.key = lower(wk.game), !.base = Len(hist.saved)]
  /\ UNCHANGED <<cacheFile, disk, app, queue, hist, rsv, arc, sg, fs, envSteps, bk, rs, rlog>>

\* "key in cache and cache[key].get('hints')", then the existing paths of
\* the cached hints; a value that is not an object has no get
cache_lookup(cache, key, dsk) ==
  LET miss == [kind |-> "miss", existing |-> <<>>]
  IN  IF cache[key].kind = "absent" THEN miss
      ELSE IF cache[key].kind = "str" THEN [kind |-> "raise", existing |-> <<>>]
      ELSE IF cache[key].hints = <<>> THEN miss
      ELSE LET existing == enumerate_existing_paths(cache[key].hints, dsk)
           IN  IF existing # <<>> THEN [kind |-> "hit", existing |-> existing]
               ELSE miss

\* find_save_paths: the cached entry is returned, or the search is announced
FindCheck ==
  /\ wk.pc = "check"
  /\ LET c == cache_lookup(wk.cache, wk.key, disk)
         r == log_append("worker", app, queue, hist,
                         IF c.kind = "hit" THEN "Found cached paths"
                         ELSE "Searching PCGamingWiki")
     IN  IF c.kind = "raise"
         THEN /\ wk' = [wk EXCEPT !.pc = "raise", !.err = "AttributeError"]
              /\ UNCHANGED <<app, queue, hist>>
         ELSE /\ wk' = IF c.kind = "hit"
                       THEN [wk EXCEPT !.pc = "return", !.hit = TRUE,
                                       !.found = c.existing,
                                       !.hints = wk.cache[wk.key].hints]
                       ELSE [wk EXCEPT !.pc = "search"]
              /\ app' = r.app /\ queue' = r.queue /\ hist' = r.hist
  /\ UNCHANGED <<cacheFile, disk, rsv, arc, sg, fs, envSteps, bk, rs, rlog>>

\* urlopen raises and a handler asks again
raised_retry(pc) == pc

\* urlopen raises: nothing in find_save_paths catches it
raised(pc) == "raise"

\* "return [], []" as an exception
return_empty_error(w, why) ==
  [w EXCEPT !.pc = "raise", !.err = why, !.why = why]

\* "return [], []"
return_empty(w, why) ==
  [w EXCEPT !.pc = "return", !.found = <<>>, !.hints = <<>>, !.why = why]

\* find_save_paths: "title = pcgw_search_title(game_name)"
FindSearch ==
  /\ wk.pc = "search"
  /\ \/ /\ wk' = [wk EXCEPT !.pc = raised(wk.pc), !.err = "URLError",
                            !.reqs = Append(@, "failed")]
        /\ UNCHANGED <<app, queue, hist>>
     \/ \E data \in SearchReplies :
          LET title == pcgw_search_title(data)
              w     == [wk EXCEPT !.reqs = Append(@, "search")]
              r     == log_append("worker", app, queue, hist, "Matched")
          IN  IF not(title)
              THEN /\ wk' = return_empty(w, "no title")
                   /\ UNCHANGED <<app, queue, hist>>
              ELSE /\ wk' = [w EXCEPT !.pc = "section", !.title = title]
                   /\ app' = r.app /\ queue' = r.queue /\ hist' = r.hist
  /\ UNCHANGED <<cacheFile, disk, rsv, arc, sg, fs, envSteps, bk, rs, rlog>>

\* find_save_paths: "idx = pcgw_find_save_section_index(title)"
FindSection ==
  /\ wk.pc = "section"
  /\ \/ wk' = [wk EXCEPT !.pc = raised(wk.pc), !.err = "URLError",
                         !.reqs = Append(@, "failed")]
     \/ \E sections \in SectionReplies :
          LET idx == pcgw_find_save_section_index(sections)
              w   == [wk EXCEPT !.reqs = Append(@, "sections")]
          IN  wk' = IF not(idx) THEN return_empty(w, "no section")
                    ELSE [w EXCEPT !.pc = "html"]
  /\ UNCHANGED <<cacheFile, disk, app, queue, hist, rsv, arc, sg, fs, envSteps, bk, rs, rlog>>

\* the hints are stored only when one of them exists
after_extract_existing(hints, existing) ==
  IF hints = <<>> THEN "empty"
  ELSE IF existing = <<>> THEN "return"
  ELSE "save"

\* "if not hints: return [], []", else on to the store of the hints
after_extract(hints, existing) ==
  IF hints = <<>> THEN "empty" ELSE "save"

\* find_save_paths: the text of the section, its hints, the existing paths
FindHtml ==
  /\ wk.pc = "html"
  /\ \/ wk' = [wk EXCEPT !.pc = raised(wk.pc), !.err = "URLError",
                         !.reqs = Append(@, "failed")]
     \/ \E data \in TextReplies :
          LET html  == pcgw_get_save_section_html(data)
              hints == extract_windows_paths_from_html(html)
              w     == [wk EXCEPT !.reqs = Append(@, "text")]
              existing == enumerate_existing_paths(hints, disk)
              next  == after_extract(hints, existing)
          IN  wk' = IF next = "empty" THEN return_empty(w, "no hints")
                    ELSE [w EXCEPT !.pc = next, !.hints = hints,
                                   !.found = existing]
  /\ UNCHANGED <<cacheFile, disk, app, queue, hist, rsv, arc, sg, fs, envSteps, bk, rs, rlog>>

\* find_save_paths: "cache[key] = {'hints': hints}; save_cache(cache)"
FindSave ==
  /\ wk.pc = "save"
  /\ LET v == HintsEntry(wk.hints)
         f == cache_store(wk.cache, cacheFile, wk.key, v)
     IN  /\ cacheFile' = f
         /\ wk' = [wk EXCEPT !.pc = "return", !.stored = f]
         /\ hist' = [hist EXCEPT !.saved =
                       Append(@, [key |-> wk.key, value |-> v, base |-> wk.base])]
  /\ UNCHANGED <<disk, app, queue, rsv, arc, sg, fs, envSteps, bk, rs, rlog>>

\* run_async._worker: work_fn has returned or raised, _ok or _err is posted
\* with self.after(0, ...) and the thread ends
WorkerPost ==
  /\ wk.pc \in {"return", "raise"}
  /\ queue' = Append(queue, Callback(wk))
  /\ wk' = NoWorker
  /\ UNCHANGED <<cacheFile, disk, app, hist, rsv, arc, sg, fs, envSteps, bk, rs, rlog>>

\* the main loop runs the next callback of the event queue: the _do of
\* log_append, or _ok -> ok(res), or _err -> err(e, tb) of on_find_paths or
\* of on_backup
MainLoop ==
  /\ MainFree
  /\ queue # <<>>
  /\ LET e == Head(queue)
         h == [hist EXCEPT !.writers = @ \cup {"main"}]
     IN  /\ queue' = Tail(queue)
         /\ IF e.kind = "log"
            THEN /\ app' = [app EXCEPT !.log = Append(@, e.text)]
                 /\ hist' = h
            ELSE IF e.kind = "ok"
            THEN /\ app' = IF e.found = <<>>
                           THEN [hide(app) EXCEPT !.found_paths = e.found,
                                                  !.found_for = e.game,
                                                  !.shown = "No Save Files Found"]
                           ELSE [hide(app) EXCEPT !.found_paths = e.found,
                                                  !.found_for = e.game,
                                                  !.paths_list = e.found,
                                                  !.backup_btn = "normal"]
                 /\ hist' = [h EXCEPT !.invoked = Append(@,
                              [run |-> e.run, cb |-> "on_success", why |-> e.why,
                               err |-> e.text])]
            ELSE IF e.kind \in {"backup_ok", "backup_err"}
            THEN /\ app' = [hide(app) EXCEPT !.shown =
                              IF e.kind = "backup_ok" THEN "Backup Complete"
                              ELSE "Backup Failed"]
                 /\ hist' = h
            ELSE LET r == log_append("main", hide(app), Tail(queue), h, "Error")
                 IN  /\ app' = r.app
                     /\ hist' = [r.hist EXCEPT !.invoked = Append(@,
                                  [run |-> e.run, cb |-> "on_error", why |-> e.why,
                                   err |-> e.text])]
  /\ UNCHANGED <<cacheFile, disk, wk, rsv, arc, sg, fs, envSteps, bk, rs, rlog>>

\* App.on_browse up to "cache = load_cache()"
on_browse ==
  /\ MainFree /\ Usable
  /\ app.browses < MaxBrowse
  /\ \E d \in Dirs :
       app' = [app EXCEPT !.backup_dir = d, !.browses = @ + 1,
                          !.loaded = [active |-> TRUE,
                                      cache |-> load_cache(cacheFile),
                                      base |-> Len(hist.saved)]]
  /\ hist' = [hist EXCEPT !.writers = @ \cup {"main"}]
  /\ UNCHANGED <<cacheFile, disk, wk, queue, rsv, arc, sg, fs, envSteps, bk, rs, rlog>>

\* App.on_browse: "cache['last_backup_dir'] = d; save_cache(cache)"
on_browse_save ==
  /\ app.loaded.active
  /\ LET v == StrEntry(app.backup_dir)
     IN  /\ cacheFile' = cache_store(app.loaded.cache, cacheFile, "last_backup_dir", v)
         /\ hist' = [hist EXCEPT !.saved =
                       Append(@, [key |-> "last_backup_dir", value |-> v,
                                  base |-> app.loaded.base])]
  /\ app' = [app EXCEPT !.loaded = App0.loaded]
  /\ UNCHANGED <<disk, wk, queue, rsv, arc, sg, fs, envSteps, bk, rs, rlog>>

\* App.on_backup, run_async included; the load and the save of the cache are
\* taken in one step
on_backup ==
  /\ MainFree /\ Usable
  /\ app.backup_btn = "normal"
  /\ app.clicks < MaxClicks
  /\ \E grab \in BOOLEAN :
       IF app.found_paths = <<>>
       THEN /\ grab
            /\ app' = [app EXCEPT !.shown = "Error", !.clicks = @ + 1]
            /\ hist' = [hist EXCEPT !.writers = @ \cup {"main"}]
            /\ UNCHANGED <<cacheFile, arc>>
       ELSE LET game == strip(sg.entry)
                backup_root == IF app.backup_dir = "" THEN "GameSaveBackups"
                               ELSE app.backup_dir
                v == StrEntry(backup_root)
            IN  /\ app.win => grab = app.grab
                /\ cacheFile' = cache_store(load_cache(cacheFile), cacheFile,
                                            "last_backup_dir", v)
                /\ hist' = [hist EXCEPT
                              !.writers = @ \cup {"main"},
                              !.saved = Append(@, [key |-> "last_backup_dir",
                                                   value |-> v,
                                                   base |-> Len(hist.saved)])]
                /\ app' = [show(app, grab) EXCEPT !.clicks = @ + 1]
                /\ arc' = [arc EXCEPT !.threads = @ \cup
                             {[id |-> app.clicks + 1, game |-> game,
                               backup_root |-> backup_root]}]
  /\ UNCHANGED <<disk, wk, queue, rsv, sg, fs, envSteps, bk, rs, rlog>>

\* the worker thread of on_backup: work() calls make_backup with the game
\* of the click and the found_paths of this moment, then _ok or _err is
\* posted; make_backup may raise before it writes anything
BackupWorker ==
  /\ \E t \in arc.threads, fails \in BOOLEAN :
       LET call == [game |-> t.game, paths |-> app.found_paths,
                    found_for |-> app.found_for]
           cb(kind) == [kind |-> kind, run |-> 0, text |-> "", found |-> <<>>,
                        why |-> "", game |-> t.game]
       IN  /\ arc' = [arc EXCEPT !.threads = @ \ {t},
                                 !.calls = Append(@, call)]
           /\ queue' = IF fails THEN Append(queue, cb("backup_err"))
                       ELSE queue \o <<LogEvent("Creating backup"),
                                       LogEvent("Backup complete"),
                                       cb("backup_ok")>>
  /\ UNCHANGED <<cacheFile, disk, app, wk, hist, rsv, sg, fs, envSteps, bk, rs, rlog>>

NextDiscovery ==
  \/ on_find_paths
  \/ FindLoad
  \/ FindCheck
  \/ FindSearch
  \/ FindSection
  \/ FindHtml
  \/ FindSave
  \/ WorkerPost
  \/ MainLoop
  \/ on_browse
  \/ on_browse_save

SpecDiscovery == InitDiscovery /\ [][NextDiscovery]_vars

\* ------------------------------------------------- the resolver on its own
\* the starts that the alternatives of "patterns" accept, and what follows
HintHeads ==
  {<<"C:">>, <<"%APPDATA%">>, <<"%appdata%">>, <<"%WINDIR%">>, <<"%HOMEPATH%">>,
   <<"%USERPROFILE%">>, <<"~">>, <<"", "Users", "bob">>, <<"Documents">>,
   <<"Saved Games">>, <<"AppData", "Roaming">>, <<"AppData", "Local">>,
   <<"OneDrive", "Documents">>}

HintTails ==
  {<<"GameX">>, <<"GameX", "saves">>, <<"..", "GameX">>, <<"sub/dir">>}

\* the hints extract_windows_paths_from_html can return: a match of
\* "patterns", stripped, with at least two pieces
HintInputs ==
  {c \in {a \o b : a \in HintHeads, b \in HintTails} :
     /\ pattern_match(c)
     /\ rstrip(c[Len(c)]) = c[Len(c)]
     /\ Len(c) >= 2}

\* os.environ of a Windows session, of one without HOMEPATH, and an empty one
Environs == {EnvNames, EnvNames \ {"HOMEPATH"}, {}}

InitHints ==
  /\ RestoreOff
  /\ DiscoveryOff
  /\ rsv \in {[NoHint EXCEPT !.hint = h, !.environ = e] :
               h \in HintInputs, e \in Environs}
  /\ arc = NoArchives
  /\ sg = NoSuggest

\* an expand_path_hint that stores the default of APPDATA in os.environ
Resolve_setdefault ==
  /\ ~rsv.done
  /\ rsv' = [rsv EXCEPT !.out = expand_path_hint(rsv.hint, rsv.environ),
                        !.done = TRUE, !.environ = @ \cup {"APPDATA"}]
  /\ UNCHANGED <<cacheFile, disk, app, wk, queue, hist, arc, sg, fs, envSteps, bk,
               rs, rlog>>

\* exp = expand_path_hint(hint)
Resolve ==
  /\ ~rsv.done
  /\ rsv' = [rsv EXCEPT !.out = expand_path_hint(rsv.hint, rsv.environ),
                        !.done = TRUE]
  /\ UNCHANGED <<cacheFile, disk, app, wk, queue, hist, arc, sg, fs, envSteps, bk,
               rs, rlog>>

\* expand_path_hint(hint) evaluated once more in the same environment
ResolveAgain ==
  /\ rsv.done /\ ~rsv.redone
  /\ rsv' = [rsv EXCEPT !.reout = expand_path_hint(rsv.hint, rsv.environ),
                        !.redone = TRUE]
  /\ UNCHANGED <<cacheFile, disk, app, wk, queue, hist, arc, sg, fs, envSteps, bk,
               rs, rlog>>

NextHints == Resolve \/ ResolveAgain

SpecHints == InitHints /\ [][NextHints]_vars

\* ------------------------------------------------ the extractor on its own
\* the pieces of text a path could start in: candidates that end in
\* punctuation, that consist of punctuation after the separator, and pieces
\* that no pattern accepts
Candidates ==
  {<<"C:", ".">>, <<"C:", "GameX)">>, <<"~", "GameX">>,
   <<"%APPDATA%", "GameX", "saves.">>, H2, <<"Games", "GameX">>, <<"Documents">>}

Texts == UNION {[1..n -> Candidates] : n \in 0..MaxText}

InitExtract ==
  /\ RestoreOff
  /\ DiscoveryOff
  /\ rsv \in {[NoHint EXCEPT !.html = t] : t \in Texts}
  /\ arc = NoArchives
  /\ sg = NoSuggest

\* hints = extract_windows_paths_from_html(html)
Extract ==
  /\ ~rsv.extracted
  /\ rsv' = [rsv EXCEPT !.hints = extract_windows_paths_from_html(rsv.html),
                        !.extracted = TRUE]
  /\ UNCHANGED <<cacheFile, disk, app, wk, queue, hist, arc, sg, fs, envSteps, bk,
               rs, rlog>>

NextExtract == Extract

SpecExtract == InitExtract /\ [][NextExtract]_vars

\* ----------------------------------------- enumerate_existing_paths alone
\* hints of a game: two that resolve to different paths, a second spelling
\* of one of them, and one whose path never exists
HintPool == {H1, H2, <<"~", "Documents", "My Games", "GameX">>, <<"C:", "GameX">>}

HintLists == UNION {[1..n -> HintPool] : n \in 0..MaxHints}

InitEnumerate ==
  /\ RestoreOff
  /\ cacheFile = NoFile
  /\ disk \in SUBSET {PathSeq[i] : i \in 1..Len(PathSeq)}
  /\ app = App0
  /\ wk = NoWorker
  /\ queue = <<>>
  /\ hist = NoHist
  /\ rsv \in {[NoHint EXCEPT !.hints = hs] : hs \in HintLists}
  /\ arc = NoArchives
  /\ sg = NoSuggest

\* found = enumerate_existing_paths(hints), called once and then once more
Enumerate ==
  /\ rsv.calls < 2
  /\ rsv' = IF rsv.calls = 0
            THEN [rsv EXCEPT !.found = enumerate_existing_paths(rsv.hints, disk),
                             !.calls = 1]
            ELSE [rsv EXCEPT !.again = enumerate_existing_paths(rsv.hints, disk),
                             !.calls = 2]
  /\ UNCHANGED <<cacheFile, disk, app, wk, queue, hist, arc, sg, fs, envSteps, bk,
               rs, rlog>>

NextEnumerate == Enumerate

SpecEnumerate == InitEnumerate /\ [][NextEnumerate]_vars

\* ------------------------------------------------------- the suggestions
\* len(text_in) < 2 on the texts of the game entry
short(text) == text = ""

\* current.lower().startswith(query.lower()) on the texts of the game entry
startswith(current, query) == query = "" \/ lower(current) = lower(query)

\* the titles the search request of a suggestion query returns; the empty
\* list also stands for a request that failed
SuggestReplies == {<<>>, <<"Game">>}

\* destroy_suggestion_box()
destroy_suggestion_box(g) == [g EXCEPT !.box = NoBox]

\* a key is released in the game entry, which then holds text:
\* App.on_game_typed
on_game_typed ==
  /\ Usable
  /\ sg.keys < MaxKeys
  /\ sg.tab = 0
  /\ \E text \in GameNames :
       LET g0 == [sg EXCEPT !.entry = text, !.keys = @ + 1, !.selected = FALSE]
           g1 == [g0 EXCEPT !.timer = NoQuery]
       IN  sg' = IF sg.suppress_suggestions THEN g0
                 ELSE IF short(strip(text)) THEN destroy_suggestion_box(g1)
                 ELSE [g1 EXCEPT !.suggest_seq = @ + 1,
                                 !.timer = [text |-> strip(text),
                                            seq |-> sg.suggest_seq + 1]]
  /\ UNCHANGED <<cacheFile, disk, app, wk, queue, hist, rsv, arc, fs, envSteps, bk,
               rs, rlog>>

\* the timer of after(300, ...) fires: run_suggestion_search(text, seq)
\* starts the worker thread
run_suggestion_search ==
  /\ sg.timer # NoQuery
  /\ sg' = [sg EXCEPT !.timer = NoQuery, !.workers = @ \cup {sg.timer}]
  /\ UNCHANGED <<cacheFile, disk, app, wk, queue, hist, rsv, arc, fs, envSteps, bk,
               rs, rlog>>

\* a worker of run_suggestion_search gets its reply and posts
\* show_suggestions(results, q, seq)
SuggestWorker ==
  /\ \E w \in sg.workers, results \in SuggestReplies :
       sg' = [sg EXCEPT !.workers = @ \ {w},
                        !.posted = Append(@, [results |-> results,
                                              query |-> w.text, seq |-> w.seq])]
  /\ UNCHANGED <<cacheFile, disk, app, wk, queue, hist, rsv, arc, fs, envSteps, bk,
               rs, rlog>>

\* show_suggestions(results, query, seq)
show_suggestions(g, e) ==
  IF e.seq # g.suggest_seq THEN g
  ELSE IF g.tab # 0 THEN g
  ELSE IF strip(g.entry) = "" \/ ~startswith(strip(g.entry), e.query) THEN g
  ELSE IF e.results = <<>> THEN destroy_suggestion_box(g)
  ELSE [g EXCEPT !.box = [open |-> TRUE, results |-> e.results,
                          query |-> e.query, seq |-> e.seq]]

\* the main loop runs the posted show_suggestions
ShowSuggestions ==
  /\ sg.posted # <<>>
  /\ sg' = show_suggestions([sg EXCEPT !.posted = Tail(@)], Head(sg.posted))
  /\ UNCHANGED <<cacheFile, disk, app, wk, queue, hist, rsv, arc, fs, envSteps, bk,
               rs, rlog>>

\* a line of the suggestion box is chosen: select_suggestion()
select_suggestion ==
  /\ Usable
  /\ sg.box.open
  /\ \E i \in 1..Len(sg.box.results) :
       sg' = [destroy_suggestion_box(sg) EXCEPT
                !.suppress_suggestions = TRUE, !.entry = sg.box.results[i],
                !.unsuppress = TRUE, !.selected = TRUE]
  /\ UNCHANGED <<cacheFile, disk, app, wk, queue, hist, rsv, arc, fs, envSteps, bk,
               rs, rlog>>

\* the timer of after(50, ...) set by select_suggestion fires
Unsuppress ==
  /\ sg.unsuppress
  /\ sg' = [sg EXCEPT !.suppress_suggestions = FALSE, !.unsuppress = FALSE]
  /\ UNCHANGED <<cacheFile, disk, app, wk, queue, hist, rsv, arc, fs, envSteps, bk,
               rs, rlog>>

\* App.on_tab_changed: another tab is shown
on_tab_changed ==
  /\ Usable
  /\ sg.tabs < MaxTabs
  /\ sg' = [destroy_suggestion_box(sg) EXCEPT
             !.tab = 1 - sg.tab, !.tabs = @ + 1, !.suggest_seq = @ + 1,
             !.timer = NoQuery]
  /\ UNCHANGED <<cacheFile, disk, app, wk, queue, hist, rsv, arc, fs, envSteps, bk,
               rs, rlog>>

InitSuggest ==
  /\ RestoreOff
  /\ DiscoveryOff
  /\ rsv = NoHint
  /\ arc = NoArchives
  /\ sg = NoSuggest

NextSuggest ==
  \/ on_game_typed
  \/ run_suggestion_search
  \/ SuggestWorker
  \/ ShowSuggestions
  \/ select_suggestion
  \/ Unsuppress
  \/ on_tab_changed

SpecSuggest == InitSuggest /\ [][NextSuggest]_vars

\* ------------------------------------------- discovery, typing and backup
InitUI ==
  /\ RestoreOff
  /\ cacheFile = NoFile
  /\ disk \in SUBSET {PathSeq[i] : i \in 1..Len(PathSeq)}
  /\ app = App0
  /\ wk = NoWorker
  /\ queue = <<>>
  /\ hist = NoHist
  /\ rsv = NoHint
  /\ arc = NoArchives
  /\ sg = NoSuggest

NextUI ==
  \/ NextDiscovery
  \/ on_game_typed
  \/ on_backup
  \/ BackupWorker

SpecUI == InitUI /\ [][NextUI]_vars

\* ------------------------------------- the loading window of run_async
\* a game is typed and its save folders are on the disk
InitLoading ==
  /\ RestoreOff
  /\ cacheFile = NoFile
  /\ disk = {PathSeq[i] : i \in 1..Len(PathSeq)}
  /\ app = App0
  /\ wk = NoWorker
  /\ queue = <<>>
  /\ hist = NoHist
  /\ rsv = NoHint
  /\ arc = NoArchives
  /\ sg = [NoSuggest EXCEPT !.entry = "Game"]

NextLoading ==
  \/ on_find_paths
  \/ FindLoad
  \/ FindCheck
  \/ FindSearch
  \/ FindSection
  \/ FindHtml
  \/ FindSave
  \/ WorkerPost
  \/ MainLoop
  \/ on_backup
  \/ BackupWorker

SpecLoading == InitLoading /\ [][NextLoading]_vars

\* ------------------------------------------------ the archives on the disk
InitArchive ==
  /\ RestoreOff
  /\ DiscoveryOff
  /\ rsv = NoHint
  /\ arc = NoArchives
  /\ sg = NoSuggest

\* time passes
Tick ==
  /\ arc.clock < MaxClock
  /\ arc' = [arc EXCEPT !.clock = @ + 1]
  /\ UNCHANGED <<cacheFile, disk, app, wk, queue, hist, rsv, sg, fs, envSteps, bk,
               rs, rlog>>

\* make_backup(game_name, paths, backup_root, log_widget): the archive it
\* opens with zipfile.ZipFile(zip_path, "w"); what was at zip_path is replaced
Archive ==
  /\ Len(arc.made) < MaxBackups
  /\ \E game_name \in BackupNames :
       \E zp \in {zip_path(BackupRoot, game_name, arc.clock)} :
         arc' = [arc EXCEPT
                   !.files = @ \cup {zp},
                   !.made = Append(@, [game |-> game_name, zip_path |-> zp,
                                       replaced |-> zp \in arc.files])]
  /\ UNCHANGED <<cacheFile, disk, app, wk, queue, hist, rsv, sg, fs, envSteps, bk,
               rs, rlog>>

NextArchive == Tick \/ Archive

SpecArchive == InitArchive /\ [][NextArchive]_vars

\* ------------------------------------------------------------ properties
Range(s) == {s[i] : i \in 1..Len(s)}

\* the PathRecords of the manifest of z (none when it has no JSON manifest)
Records(z) ==
  IF \E i \in 1..Len(z) : z[i].name = MANIFEST
  THEN LET m == CHOOSE i \in 1..Len(z) :
                  /\ z[i].name = MANIFEST
                  /\ \A j \in (i + 1)..Len(z) : z[j].name # MANIFEST
       IN  IF z[m].kind = "json" THEN z[m].paths ELSE <<>>
  ELSE <<>>

Corrupt(z) == Records(z) = <<>>

\* positions of z that hold a payload entry "<token>/<relative name>"
PayloadPos(z) ==
  {i \in 1..Len(z) :
     z[i].name # MANIFEST /\ Len(z[i].name) >= 2 /\ z[i].name[Len(z[i].name)] # ""}

\* the eligible entries: the index token is an integer that has a record
Eligible(z) ==
  LET recs == Records(z)
  IN  {i \in PayloadPos(z) :
         LET n == int(z[i].name[1])
         IN  n.ok /\ \E k \in 1..Len(recs) : recs[k].index = n.val}

\* the record an eligible entry refers to
RecordOf(z, i) ==
  LET recs == Records(z)
      n    == int(z[i].name[1]).val
      k    == CHOOSE k \in 1..Len(recs) :
                /\ recs[k].index = n
                /\ \A j \in (k + 1)..Len(recs) : recs[j].index # n
  IN  recs[k]

DestOf(z, i) ==
  LET rec == RecordOf(z, i)
  IN  IF rec.type = "dir" THEN join(rec.base, Tail(z[i].name)) ELSE rec.base

Analyzed ==
  rs.state \in {"NoConflict", "ConflictDetected", "AwaitingConfirm", "Applying",
                "Applied", "ApplyError", "Completed", "Aborted"}

\* the files below (or at) the paths handed to make_backup
BackedUpFiles == FilesUnder(bk.fs0, bk.paths)

Skipped == Range(bk.log)

\* the restore of the archive make_backup built has completed, and none of
\* the files to recreate existed when it was analyzed and when it was applied
RoundTripDone ==
  /\ bk.done /\ rs.zip = bk.zip /\ rs.state = "Completed"
  /\ \A q \in BackedUpFiles : ~exists(rlog.anaFs, q) /\ ~exists(rlog.applyFs, q)

\* C1 as stated: after backup and restore into a filesystem without the
\* destinations, every file below a directory-kind path and every file-kind
\* path holds its original bytes at its original place.
C1_RoundTripAllFiles ==
  RoundTripDone => \A q \in BackedUpFiles : fs[q] = bk.fs0[q]

\* C1, amended: the same for every file that make_backup could read; a file
\* it skipped is not in the archive and is not recreated, and the restore
\* writes no other file.
C1_RoundTripReadFiles ==
  RoundTripDone =>
    /\ \A q \in BackedUpFiles \ Skipped : fs[q] = bk.fs0[q]
    /\ \A q \in Universe :
         fs[q] # rlog.applyFs[q] =>
           \E r \in BackedUpFiles \ Skipped : IsPrefix(q, r)

C1_Witness ==
  /\ RoundTripDone
  /\ Len(bk.paths) = 2
  /\ bk.paths[1] = <<"S">> /\ bk.paths[2] = <<"T">>
  /\ Skipped = {}
  /\ fs[<<"S", "d", "g">>] = "bg" /\ fs[<<"S", "f">>] = "bf" /\ fs[<<"T">>] = "bT"

\* C2: an archive without a manifest, with a manifest that does not parse or
\* with an empty paths list makes the restore fail in the analysis; the
\* apply phase is never started and the run changes nothing on disk.
C2_CorruptArchiveFails ==
  /\ [](Corrupt(rs.zip) /\ rs.state \notin {"Idle", "Analyzing"} =>
          /\ rs.state \in {"AnalyzeError", "Failed"}
          /\ rs.err # ""
          /\ ~rlog.asked /\ ~rlog.applied /\ rlog.written = <<>>)
  /\ [][Corrupt(rs.zip) /\ rs.state # "Idle" /\ fs' # fs =>
          envSteps' = envSteps + 1]_vars

C2_Witness ==
  /\ rs.state = "Failed"
  /\ rs.err = "Metadata contains no save paths."
  /\ Len(rs.zip) >= 2

\* C3: with a conflict the restore waits for the caller and writes nothing
\* before the approval, a cancel ends it without a write; without a
\* conflict the apply phase starts without a question.
C3_ConfirmationGate ==
  /\ [](/\ rs.state = "AwaitingConfirm" =>
             rs.info.conflict /\ rlog.asked /\ ~rlog.applied
        /\ rs.state = "Aborted" => rlog.asked /\ ~rlog.applied /\ rlog.written = <<>>
        /\ rlog.applied /\ rs.info.conflict => rlog.approved
        /\ Analyzed /\ ~rs.info.conflict => ~rlog.asked)
  /\ [][/\ rs.state = "ConflictDetected" =>
             rs'.state \in {"ConflictDetected", "AwaitingConfirm"}
        /\ rs.state = "NoConflict" => rs'.state \in {"NoConflict", "Applying"}
        /\ rs.state \in {"ConflictDetected", "AwaitingConfirm", "Aborted"}
             /\ fs' # fs => envSteps' = envSteps + 1]_vars

C3_Witness ==
  /\ rs.state = "Aborted"
  /\ rs.info.conflict
  /\ rs.info.file_count >= 2

\* C4: analyze reports a conflict exactly when the destination of some
\* eligible entry exists at analysis time, and it reports the number of
\* eligible entries.
C4_AnalyzeReport ==
  Analyzed =>
    LET E == Eligible(rs.zip)
    IN  /\ rs.info.conflict =
             (\E i \in E : exists(rlog.anaFs, DestOf(rs.zip, i)))
        /\ rs.info.file_count = Cardinality(E)
        /\ rs.state = "ConflictDetected" => rs.info.conflict
        /\ rs.state = "NoConflict" => ~rs.info.conflict

C4_Witness ==
  /\ rs.state = "ConflictDetected"
  /\ rs.info.file_count = 2
  /\ \E i, j \in Eligible(rs.zip) :
       /\ i < j
       /\ exists(rlog.anaFs, DestOf(rs.zip, i))
       /\ ~exists(rlog.anaFs, DestOf(rs.zip, j))

\* entry i could be written by the apply phase: nothing on its way is
\* unwritable, in the way, or put in the way by another entry
CanWrite(z, i) ==
  LET d == DestOf(z, i)
  IN  /\ d \in Universe
      /\ \A q \in Universe : IsPrefix(q, d) => q \notin rlog.unwritable
      /\ ~isdir(rlog.applyFs, d)
      /\ \A q \in Universe : IsPrefix(q, d) /\ q # d => ~isfile(rlog.applyFs, q)
      /\ \A j \in Eligible(z) :
           DestOf(z, j) # d =>
             ~IsPrefix(DestOf(z, j), d) /\ ~IsPrefix(d, DestOf(z, j))

\* C5: a failure to write one eligible entry does not prevent the remaining
\* eligible entries from being processed; every other eligible entry is
\* still written.
C5_FailureDoesNotStopTheRest ==
  rlog.applied =>
    \A i \in Eligible(rs.zip) : CanWrite(rs.zip, i) => i \in Range(rlog.written)

\* C6: the apply phase always reports a restored count, and the count is the
\* number of eligible entries whose bytes were written in this run.
C6_CountIsWhatWasWritten ==
  rlog.applied /\ rs.state \in {"Completed", "Failed"} =>
    rlog.shown = "Files restored" /\ rs.count = Len(rlog.written)

\* C7: the manifest of a built archive holds one record per position of the
\* path list, with the indices 0..len(P)-1 in the order of the list, also
\* when files were skipped.
C7_ManifestIndices ==
  bk.done =>
    /\ Len(Records(bk.zip)) = Len(bk.paths)
    /\ \A k \in 1..Len(bk.paths) :
         /\ Records(bk.zip)[k].index = k - 1
         /\ Records(bk.zip)[k].base = bk.paths[k]
         /\ Records(bk.zip)[k].type =
              (IF bk.fs0[bk.paths[k]] = "dir" THEN "dir" ELSE "file")

C7_Witness ==
  /\ bk.done
  /\ Len(bk.paths) = 2
  /\ bk.paths[2] \in Skipped
  /\ bk.fs0[bk.paths[1]] = "dir"

\* the archive has a payload entry that is not eligible
Lacking(z) == ~Corrupt(z) /\ PayloadPos(z) # Eligible(z)

\* C8: with a manifest that lacks the record of some index, analysis counts
\* and apply writes exactly the entries whose index token is an integer with
\* a record; the other entries are skipped by both.
C8_SkipOnlyUnmatched ==
  rs.state # "Idle" /\ Lacking(rs.zip) =>
    LET E == Eligible(rs.zip)
    IN  /\ Analyzed => rs.info.file_count = Cardinality(E)
        /\ Range(rlog.written) \subseteq E
        /\ rs.state \in {"Applied", "Completed"} =>
             /\ Range(rlog.written) = E
             /\ rs.count = Cardinality(E)
             /\ \A i \in E : fs[DestOf(rs.zip, i)] = rs.zip[i].bytes

C8_Witness ==
  /\ rs.state = "Completed"
  /\ bk.done /\ Len(bk.paths) = 2
  /\ Lacking(rs.zip)
  /\ rlog.written # <<>>
  /\ \E i \in PayloadPos(rs.zip) :
       int(rs.zip[i].name[1]).ok /\ i \notin Eligible(rs.zip)

\* the payload entries of the built archive that carry index n
EntriesOf(n) == {i \in PayloadPos(bk.zip) : bk.zip[i].name[1] = str(n)}

FileRecords ==
  {k \in 1..Len(Records(bk.zip)) : Records(bk.zip)[k].type = "file"}

\* C9 as stated: every record of kind file has exactly one payload entry
\* with its index, named by the final component of its base path.
C9_ExactlyOneEntryPerFile ==
  bk.done =>
    \A k \in FileRecords :
      /\ Cardinality(EntriesOf(k - 1)) = 1
      /\ \A i \in EntriesOf(k - 1) :
           Tail(bk.zip[i].name) = <<basename(Records(bk.zip)[k].base)>>

\* C9, amended: a record of kind file has at most one payload entry with its
\* index, and exactly one unless the file was skipped as unreadable; the
\* entry is named by the final component of the base path.
C9_OneEntryPerReadFile ==
  bk.done =>
    \A k \in FileRecords :
      /\ Cardinality(EntriesOf(k - 1)) <= 1
      /\ Records(bk.zip)[k].base \notin Skipped =>
           Cardinality(EntriesOf(k - 1)) = 1
      /\ \A i \in EntriesOf(k - 1) :
           /\ Tail(bk.zip[i].name) = <<basename(Records(bk.zip)[k].base)>>
           /\ bk.zip[i].bytes = bk.fs0[Records(bk.zip)[k].base]

C9_Witness ==
  /\ bk.done
  /\ Len(bk.paths) = 2
  /\ bk.paths[2] = <<"S", "f">>
  /\ \E i \in PayloadPos(bk.zip) : bk.zip[i].name = <<"1", "f">>

\* the archive name make_backup gives the file q of the path at position k
ArcName(k, q) ==
  <<str(k - 1)>> \o
    (IF q = bk.paths[k] THEN <<q[Len(q)]>>
     ELSE SubSeq(q, Len(bk.paths[k]) + 1, Len(q)))

\* C10: an unreadable file is skipped with a warning and does not end the
\* build: every readable file of every path is a payload entry, the manifest
\* is written after all payload entries, and the archive path is returned.
C10_SkipNeverAborts ==
  bk.done =>
    /\ bk.zip_path # <<>>
    /\ bk.zip # <<>>
    /\ bk.zip[Len(bk.zip)].name = MANIFEST
    /\ \A i \in 1..(Len(bk.zip) - 1) : bk.zip[i].name # MANIFEST
    /\ Skipped = bk.unreadable
    /\ \A k \in 1..Len(bk.paths) :
         \A q \in FilesUnder(bk.fs0, <<bk.paths[k]>>) :
           IF q \in bk.unreadable
           THEN \A i \in 1..Len(bk.zip) : bk.zip[i].name # ArcName(k, q)
           ELSE \E i \in 1..Len(bk.zip) :
                  /\ bk.zip[i].name = ArcName(k, q)
                  /\ bk.zip[i].bytes = bk.fs0[q]

C10_Witness ==
  /\ bk.done
  /\ bk.paths = << <<"S">>, <<"T">> >>
  /\ bk.unreadable = {<<"S", "f">>}
  /\ \E i, j \in PayloadPos(bk.zip) :
       /\ bk.zip[i].name = <<"0", "d", "g">>
       /\ bk.zip[j].name = <<"1", "T">>

\* C11: for every eligible payload entry the analysis phase and the apply
\* phase compute the same destination: the base of its record joined with
\* the relative part of the entry name when the record is a "dir", exactly
\* the base when it is a "file"; an entry the apply phase wrote is a file
\* at that destination.
C11_SameDestination ==
  rs.state # "Idle" =>
    LET z    == rs.zip
        recs == Records(z)
        E    == Eligible(z)
    IN  /\ \A i \in E :
             LET a == analyze_entry(recs, z[i])
                 r == restore_entry(recs, z[i])
                 d == DestOf(z, i)
             IN  a.ok /\ r.ok /\ a.dest = d /\ r.dest = d
        /\ rlog.applied =>
             \A i \in Range(rlog.written) : i \in E /\ isfile(fs, DestOf(z, i))

C11_Witness ==
  /\ rs.state = "Completed"
  /\ \E i, j \in Range(rlog.written) :
       /\ RecordOf(rs.zip, i).type = "dir"
       /\ RecordOf(rs.zip, j).type = "file"
       /\ DestOf(rs.zip, i) # RecordOf(rs.zip, i).base
       /\ DestOf(rs.zip, j) = RecordOf(rs.zip, j).base
       /\ rs.info.file_count = 2


Terminal == {"Completed", "Failed", "Aborted"}

\* the steps of a restore run; AnalyzeError, Applied and ApplyError are the
\* results of a worker that wait in the event queue for their callback
RestoreSteps ==
  { <<"Idle", "Analyzing">>,
    <<"Analyzing", "NoConflict">>, <<"Analyzing", "ConflictDetected">>,
    <<"Analyzing", "AnalyzeError">>, <<"AnalyzeError", "Failed">>,
    <<"NoConflict", "Applying">>, <<"ConflictDetected", "AwaitingConfirm">>,
    <<"AwaitingConfirm", "Applying">>, <<"AwaitingConfirm", "Aborted">>,
    <<"Applying", "Applied">>, <<"Applying", "ApplyError">>,
    <<"Applied", "Completed">>, <<"ApplyError", "Failed">> }

\* C12: every restore run that was started eventually reaches a terminal
\* outcome, Completed(count), Failed(reason) or Aborted, when the workers
\* are scheduled and the question is answered; it gets there only through
\* the transitions Idle, Analyzing, NoConflict or ConflictDetected and
\* AwaitingConfirm, Applying; the outcome is shown once and no step follows
\* a terminal outcome.
C12_RestoreTerminates ==
  /\ (rs.state = "Analyzing") ~> (rs.state \in Terminal)
  /\ [][rs'.state # rs.state => <<rs.state, rs'.state>> \in RestoreSteps]_vars
  /\ [][rs.state \notin Terminal]_vars
  /\ [](rs.state = "Completed" => rlog.shown = "Files restored" /\ rlog.applied)
  /\ [](rs.state = "Failed" => rlog.shown = "Restore failed")
  /\ [](rs.state = "Aborted" => rlog.shown = "" /\ ~rlog.applied)

C12_Witness ==
  /\ rs.state = "Aborted"
  /\ rs.info.conflict
  /\ rlog.asked
  /\ rs.info.file_count = 2


\* the lookup of the cache is over
Looked == wk.pc \notin {"idle", "load", "check"}

\* the entry of the loaded cache under the lower-cased game name
CachedEntry == wk.cache[lower(wk.game)]

\* C13: a cached entry is used (its existing paths are returned, without a
\* wiki request) only if the cache holds a non-empty hint list under the
\* lower-cased game name and one of the hints resolves to an existing
\* path; in every other case the lookup is a miss and the wiki discovery
\* runs.
C13_CacheUse ==
  Looked =>
    LET usable == /\ CachedEntry.kind = "hints"
                  /\ CachedEntry.hints # <<>>
                  /\ \E i \in 1..Len(CachedEntry.hints) :
                       expand_path_hint(CachedEntry.hints[i], WinEnv) \in disk
    IN  /\ wk.hit <=> usable
        /\ wk.hit =>
             /\ wk.pc = "return" /\ wk.reqs = <<>>
             /\ wk.hints = CachedEntry.hints
             /\ wk.found = enumerate_existing_paths(CachedEntry.hints, disk)
        /\ ~wk.hit =>
             /\ wk.pc \in {"search", "section", "html", "save", "return", "raise"}
             /\ wk.pc \in {"return", "raise"} => wk.reqs # <<>>


RECURSIVE Replay(_)
Replay(n) ==
  IF n = 0 THEN hist.file0
  ELSE LET u == hist.saved[n]
       IN  save_cache([load_cache(Replay(u.base)) EXCEPT ![u.key] = u.value])

\* C15 as stated: the accesses to the cache file are serialized; when a
\* discovery overlaps with another cache writer the final cache file holds
\* the updates of both, no completed update is lost.
C15_NoUpdateLost ==
  \A i \in 1..Len(hist.saved) :
    (\A j \in (i + 1)..Len(hist.saved) : hist.saved[j].key # hist.saved[i].key)
      => cacheFile.data[hist.saved[i].key] = hist.saved[i].value

\* C15: the accesses to the cache file are not serialized, the last writer
\* wins: every writer stores the mapping it loaded with its own entry
\* replaced, so the cache file always holds the update of the writer that
\* saved last, and an update saved between the load and the save of that
\* writer is lost.
C15_LastWriterWins ==
  LET n == Len(hist.saved)
  IN  /\ cacheFile = Replay(n)
      /\ n > 0 =>
           /\ cacheFile.data[hist.saved[n].key] = hist.saved[n].value
           /\ \A j \in (hist.saved[n].base + 1)..(n - 1) :
                hist.saved[j].key # hist.saved[n].key =>
                  cacheFile.data[hist.saved[j].key] =
                    load_cache(Replay(hist.saved[n].base))[hist.saved[j].key]

C15_Witness ==
  /\ Len(hist.saved) = 2
  /\ hist.saved[2].base = 0
  /\ hist.saved[1].key = "game" /\ hist.saved[2].key = "last_backup_dir"
  /\ hist.saved[1].value.hints = <<H1, H2>>
  /\ cacheFile.data["game"] # hist.saved[1].value
  /\ cacheFile.data["last_backup_dir"] = StrEntry("D1")


\* C16: when discovery finds no wiki title, no save-location section, or
\* extracts no hints, it ends normally with the empty result ([], []), not
\* with an error: on_success is called with it and found_paths becomes
\* empty.
C16_NotFoundIsEmptyResult ==
  /\ wk.why # "" =>
       wk.pc = "return" /\ wk.found = <<>> /\ wk.hints = <<>> /\ wk.err = ""
  /\ \A i \in 1..Len(queue) :
       queue[i].why # "" => queue[i].kind = "ok" /\ queue[i].found = <<>>
  /\ \A i \in 1..Len(hist.invoked) :
       hist.invoked[i].why # "" => hist.invoked[i].cb = "on_success"
  /\ Len(hist.invoked) > 0 /\ hist.invoked[Len(hist.invoked)].why # "" =>
       app.found_paths = <<>>

C16_Witness ==
  /\ Len(hist.invoked) = 1
  /\ hist.invoked[1].cb = "on_success"
  /\ hist.invoked[1].why = "no hints"
  /\ app.shown = "No Save Files Found"
  /\ app.found_paths = <<>>
  /\ app.show_count = 0


\* a wiki request of the run has failed
NetworkFailed == \E i \in 1..Len(wk.reqs) : wk.reqs[i] = "failed"

\* C17: a network failure in any wiki request fails closed: discovery
\* treats it as "not found" and yields the empty result, the same outcome
\* as a game with no wiki match.
C17_NetworkFailureIsNotFound ==
  /\ NetworkFailed =>
       wk.pc = "return" /\ wk.found = <<>> /\ wk.hints = <<>> /\ wk.err = ""
  /\ \A i \in 1..Len(queue) :
       queue[i].text = "URLError" => queue[i].kind = "ok" /\ queue[i].found = <<>>


\* the _err callbacks of run r that wait in the queue, and those that ran
ErrPostedIn(q, r) == {i \in 1..Len(q) : q[i].kind = "err" /\ q[i].run = r}

ErrPosted(r) == ErrPostedIn(queue, r)

ErrInvokedIn(h, r) ==
  {i \in 1..Len(h.invoked) : h.invoked[i].cb = "on_error" /\ h.invoked[i].run = r}

ErrInvoked(r) == ErrInvokedIn(hist, r)

\* C18: a network failure is surfaced to the caller exactly once and never
\* retried: the failing request is the last request of its run, the run
\* ends with the exception, one _err is posted for it, and on_error logs
\* it once.
C18_SurfacedOnceNoRetry ==
  /\ [](/\ \A i \in 1..(Len(wk.reqs) - 1) : wk.reqs[i] # "failed"
        /\ NetworkFailed => wk.pc = "raise" /\ wk.err = "URLError"
        /\ \A r \in 1..app.runs :
             Cardinality(ErrPosted(r)) + Cardinality(ErrInvoked(r)) <= 1
        /\ NetworkFailed => ErrPosted(wk.run) = {} /\ ErrInvoked(wk.run) = {})
  /\ [][NetworkFailed /\ wk' # wk =>
         /\ wk'.pc = "idle"
         /\ Cardinality(ErrPostedIn(queue', wk.run)) = 1
         /\ queue'[Len(queue')].text = "URLError"]_vars
  /\ [][\A r \in 1..app.runs :
         ErrPosted(r) # {} /\ ErrPostedIn(queue', r) = {} =>
           /\ Cardinality(ErrInvokedIn(hist', r)) = 1
           /\ app'.log = Append(app.log, "Error")]_vars

C18_Witness ==
  /\ Len(hist.invoked) = 1
  /\ hist.invoked[1].cb = "on_error"
  /\ hist.invoked[1].err = "URLError"
  /\ app.log = <<"Finding save paths", "Searching PCGamingWiki", "Matched", "Error">>
  /\ queue = <<>>
  /\ wk.pc = "idle"


\* the callbacks (_ok or _err) of run r in the queue, and those that ran
Pending(r) == {i \in 1..Len(queue) : queue[i].kind # "log" /\ queue[i].run = r}

Invoked(r) == {i \in 1..Len(hist.invoked) : hist.invoked[i].run = r}

\* C19: the work of run_async runs on the worker thread and never changes
\* the state of the application itself: every write to found_paths, the path
\* list, the backup button, the log and the loading window is made by the
\* main thread from the event queue, and each call gets exactly one of
\* on_success and on_error.
C19_MainThreadOnly ==
  /\ [](/\ hist.writers \subseteq {"main"}
        /\ \A r \in 1..app.runs :
             Cardinality(Pending(r)) + Cardinality(Invoked(r)) =
               IF wk.run = r THEN 0 ELSE 1)
  /\ [][wk.pc # "idle" /\ wk' # wk => app' = app]_vars
  /\ [][\/ app'.found_paths # app.found_paths
        \/ app'.backup_btn # app.backup_btn /\ app'.backup_btn = "normal"
        \/ app'.paths_list # app.paths_list /\ app'.paths_list # <<>>
        \/ app'.show_count < app.show_count =>
         /\ queue # <<>> /\ Head(queue).kind # "log" /\ queue' = Tail(queue)
         /\ Len(hist'.invoked) = Len(hist.invoked) + 1
         /\ wk' = wk]_vars

C19_Witness ==
  /\ hist.writers = {"main"}
  /\ Len(hist.invoked) = 1
  /\ hist.invoked[1].cb = "on_success"
  /\ app.found_paths # <<>>
  /\ app.backup_btn = "normal"
  /\ "Searching PCGamingWiki" \in {app.log[i] : i \in 1..Len(app.log)}
  /\ app.show_count = 0


\* a path with a drive and a root
isabs(p) == Len(p) >= 2 /\ p[1] \in Drives

\* C20: for every hint the extractor can return, expand_path_hint returns an
\* absolute, normalized path: it starts with a drive and a root, and
\* normpath leaves it as it is.
C20_AbsoluteNormalized ==
  rsv.done => isabs(rsv.out) /\ normpath_nt(rsv.out) = rsv.out


\* C21: no value returned by the hint extractor has fewer than two path
\* segments when split on the backslash, whatever the text and after the
\* trailing punctuation is trimmed.
C21_TwoSegments ==
  rsv.extracted => \A i \in 1..Len(rsv.hints) : Len(rsv.hints[i]) >= 2

\* a candidate that is only punctuation after the separator was trimmed and
\* returned
C21_Witness ==
  /\ rsv.extracted
  /\ \E i \in 1..Len(rsv.html) : rsv.html[i] = <<"C:", ".">>
  /\ \E i \in 1..Len(rsv.hints) : rsv.hints[i] = <<"C:", "">>


\* the place of a path in the order of sorted()
PathPos(p) == CHOOSE i \in 1..Len(PathSeq) : PathSeq[i] = p

C24_NoSilentOverwrite ==
  rlog.applied /\ ~rlog.approved =>
    \A k \in 1..Len(rlog.written) :
       ~isfile(rlog.applyFs, DestOf(rs.zip, rlog.written[k]))


\* C25: whatever archive restore accepts, every file written for a record of
\* type dir lies inside the base directory of that record, also when the
\* relative part of the entry holds ".." or starts at the root.
C25_WritesInsideBase ==
  rlog.applied =>
    \A k \in 1..Len(rlog.written) :
       LET i == rlog.written[k]
       IN  RecordOf(rs.zip, i).type = "dir" =>
             IsPrefix(RecordOf(rs.zip, i).base, resolve(DestOf(rs.zip, i)))


\* C26: the archive written by make_backup always lies in a directory
\* directly below the backup root, whatever the game name: the output
\* directory is never the backup root itself or a directory outside it.
C26_ProperSubdirectory ==
  \A k \in 1..Len(arc.made) :
     /\ IsPrefix(BackupRoot, arc.made[k].zip_path.dir)
     /\ Len(arc.made[k].zip_path.dir) = Len(BackupRoot) + 1

\* C27: make_backup never replaces an archive written by an earlier call:
\* two backups, also of the same game within one second, are two files.
C27_NoArchiveReplaced ==
  /\ \A k \in 1..Len(arc.made) : ~arc.made[k].replaced
  /\ Cardinality(arc.files) = Len(arc.made)

\* C28: every call of make_backup made through Backup Files gets the game
\* name for which the found_paths it archives were discovered.
C28_ArchiveNamesItsGame ==
  \A i \in 1..Len(arc.calls) : arc.calls[i].game = arc.calls[i].found_for

\* the run_async operations whose _ok or _err has not run yet: the worker
\* threads still at work and the callbacks waiting in the event queue
PendingOps ==
  (IF wk.pc = "idle" THEN 0 ELSE 1)
  + Cardinality(arc.threads)
  + Cardinality({i \in 1..Len(queue) : queue[i].kind # "log"})

\* C29: _show_count is never negative and equals the number of run_async
\* operations whose callback has not run yet; the loading window exists
\* exactly while the counter is positive; when every operation has
\* completed the counter is 0 and the window is destroyed.
C29_CounterBalanced ==
  /\ app.show_count >= 0
  /\ app.show_count = PendingOps
  /\ app.win <=> app.show_count > 0
  /\ PendingOps = 0 => app.show_count = 0 /\ ~app.win

\* two operations overlap, and one of them completes while the other is
\* still at work
C29_Witness ==
  /\ app.show_count = 1
  /\ app.win
  /\ Len(hist.invoked) > 0
  /\ app.clicks = 2
  /\ Cardinality(arc.threads) = 1

\* C30: the suggestion box is filled only with the results of the query
\* issued last, and once a suggestion has been selected the box stays
\* closed until the user types again.
C30_NoStaleSuggestions ==
  /\ [](sg.selected => ~sg.box.open)
  /\ [][(sg'.box # sg.box /\ sg'.box.open) =>
          sg'.box.seq = sg.suggest_seq]_vars

====
